---------------------------- MODULE Spec2Model ----------------------------
(***************************************************************************)
(* polygon-mcp: the endpoint adapters of src/mcp_polygon/server.py, the    *)
(* tool registry they are registered on, the upstream data client the      *)
(* adapters call, and the startup of entrypoint.py.                        *)
(*                                                                         *)
(* Text is a sequence of Unicode code points, bytes are a sequence of      *)
(* 0..255.  A Python value that the adapter only forwards (an argument) is *)
(* the token of its repr: "None", "True", "'AAPL'", "1704153600".          *)
(***************************************************************************)
EXTENDS Integers, Sequences, FiniteSets, TLC

(***************************************************************************)
(* Bounds of the exploration.                                              *)
(***************************************************************************)
MaxInvocations == 2

(***************************************************************************)
(* The state.                                                              *)
(*   env          the environment variables of the process: the names that *)
(*                are set and their values                                 *)
(*   stdout       the lines printed so far                                 *)
(*   config       the configuration of polygon_client: its API key and its *)
(*                User-Agent header                                        *)
(*   runs         the calls of server.run made so far: the transport each  *)
(*                was made with                                            *)
(*   phase        uninitialized (server.py being imported), registered,    *)
(*                serving                                                  *)
(*   registry     the tools of poly_mcp: name -> index in Tools of the     *)
(*                function registered under the name                       *)
(*   nRegistered  the number of @poly_mcp.tool() registrations executed    *)
(*   pending      the invocations the transport has received and the event *)
(*                loop has not started yet                                 *)
(*   pc           idle, calling (the adapter is inside the upstream call), *)
(*                returned, raised                                         *)
(*   inv          the invocation in progress: tool name and arguments      *)
(*   frame        the local variables of the running adapter               *)
(*   calls        the upstream calls the invocation in progress has issued *)
(*   resp         the outcome of its upstream call                         *)
(*   out          what the invocation returned or raised                   *)
(*   earlier      when the invocation in progress was started as the       *)
(*                result of the one before it was handed back: the outcome *)
(*                of the upstream call of that earlier invocation          *)
(*   nInvoked     invocations whose body was entered so far                *)
(*   nCalls       upstream calls issued so far                             *)
(*   app          once create_app of http_wrapper.py has run: the fastmcp  *)
(*                package it found and what it returned or raised          *)
(***************************************************************************)
VARIABLES env, stdout, config, runs, phase, registry, nRegistered,
          pending, pc, inv, frame, calls, resp, out, earlier, nInvoked,
          nCalls, app

vars == <<env, stdout, config, runs, phase, registry, nRegistered,
          pending, pc, inv, frame, calls, resp, out, earlier, nInvoked,
          nCalls, app>>

(***************************************************************************)
(* Generic helpers.                                                        *)
(***************************************************************************)
Range(s) == {s[i] : i \in 1..Len(s)}

Digit(c) == c >= 48 /\ c <= 57

IsWs(c) == c \in {32, 9, 10, 13}

RECURSIVE Pow10(_)
Pow10(n) == IF n <= 0 THEN 1 ELSE 10 * Pow10(n - 1)

(***************************************************************************)
(* Python exceptions.  An exception object is its class and its args; each *)
(* arg is a text.  `except Exception` catches the instances of Exception;  *)
(* KeyboardInterrupt and SystemExit derive from BaseException only.        *)
(***************************************************************************)
Exc(cls, args) == [cls |-> cls, args |-> args]

ExceptionClasses ==
  {"Exception", "ConnectionError", "TimeoutError", "KeyError", "TypeError",
   "AttributeError", "UnicodeDecodeError", "JSONDecodeError", "BadResponse",
   "AuthError", "RuntimeError", "ImportError"}

BaseOnlyClasses == {"KeyboardInterrupt", "SystemExit"}

IsException(e) == e.cls \in ExceptionClasses

\* repr() of a str: single quotes, unless the text holds a single quote and
\* no double quote.
ReprStr(s) ==
  IF 39 \in Range(s) /\ 34 \notin Range(s)
  THEN <<34>> \o s \o <<34>>
  ELSE <<39>> \o s \o <<39>>

RECURSIVE ReprArgs(_, _)
ReprArgs(args, k) ==
  IF k > Len(args) THEN <<>>
  ELSE ReprStr(args[k]) \o (IF k < Len(args) THEN <<44, 32>> ELSE <<>>)
       \o ReprArgs(args, k + 1)

\* "'utf-8' codec can't decode bytes: "
T_CodecCantDecode ==
  <<39, 117, 116, 102, 45, 56, 39, 32, 99, 111, 100, 101, 99, 32, 99, 97,
    110, 39, 116, 32, 100, 101, 99, 111, 100, 101, 32, 98, 121, 116, 101,
    115, 58, 32>>
\* str(e).  BaseException.__str__: no args -> "", one arg -> str(arg), more
\* -> the repr of the args tuple.  KeyError shows the repr of its one arg.
\* UnicodeDecodeError formats encoding and reason (args <<encoding, reason>>
\* here; the byte and position of the real message are left out).
Str(e) ==
  IF e.cls = "UnicodeDecodeError" THEN T_CodecCantDecode \o e.args[2]
  ELSE IF Len(e.args) = 0 THEN <<>>
  ELSE IF Len(e.args) = 1
       THEN IF e.cls = "KeyError" THEN ReprStr(e.args[1]) ELSE e.args[1]
  ELSE <<40>> \o ReprArgs(e.args, 1) \o <<41>>

(***************************************************************************)
(* bytes.decode("utf-8"), strict.                                          *)
(***************************************************************************)
\* "utf-8"
T_utf8 ==
  <<117, 116, 102, 45, 56>>
\* "invalid start byte"
T_InvalidStartByte ==
  <<105, 110, 118, 97, 108, 105, 100, 32, 115, 116, 97, 114, 116, 32, 98,
    121, 116, 101>>
\* "invalid continuation byte"
T_InvalidContinuationByte ==
  <<105, 110, 118, 97, 108, 105, 100, 32, 99, 111, 110, 116, 105, 110, 117,
    97, 116, 105, 111, 110, 32, 98, 121, 116, 101>>
\* "unexpected end of data"
T_UnexpectedEndOfData ==
  <<117, 110, 101, 120, 112, 101, 99, 116, 101, 100, 32, 101, 110, 100, 32,
    111, 102, 32, 100, 97, 116, 97>>
DecodeError(reason) ==
  [ok |-> FALSE, exc |-> Exc("UnicodeDecodeError", <<T_utf8, reason>>)]

\* the character that starts at b[i]: its code point and its length
Utf8Char(b, i) ==
  LET b0 == b[i]
      n == IF b0 < 128 THEN 1
           ELSE IF b0 \in 194..223 THEN 2
           ELSE IF b0 \in 224..239 THEN 3
           ELSE IF b0 \in 240..244 THEN 4
           ELSE 0
      lo2 == IF b0 = 224 THEN 160 ELSE IF b0 = 240 THEN 144 ELSE 128
      hi2 == IF b0 = 237 THEN 159 ELSE IF b0 = 244 THEN 143 ELSE 191
      Char(c) == [ok |-> TRUE, c |-> c, n |-> n]
  IN
  IF n = 0 THEN DecodeError(T_InvalidStartByte)
  ELSE IF n = 1 THEN Char(b0)
  ELSE IF i + 1 > Len(b) THEN DecodeError(T_UnexpectedEndOfData)
  ELSE IF b[i + 1] \notin lo2..hi2
    THEN DecodeError(T_InvalidContinuationByte)
  ELSE IF n = 2 THEN Char((b0 - 192) * 64 + (b[i + 1] - 128))
  ELSE IF i + 2 > Len(b) THEN DecodeError(T_UnexpectedEndOfData)
  ELSE IF b[i + 2] \notin 128..191
    THEN DecodeError(T_InvalidContinuationByte)
  ELSE IF n = 3
    THEN Char((b0 - 224) * 4096 + (b[i + 1] - 128) * 64 + (b[i + 2] - 128))
  ELSE IF i + 3 > Len(b) THEN DecodeError(T_UnexpectedEndOfData)
  ELSE IF b[i + 3] \notin 128..191
    THEN DecodeError(T_InvalidContinuationByte)
  ELSE Char((b0 - 240) * 262144 + (b[i + 1] - 128) * 4096
            + (b[i + 2] - 128) * 64 + (b[i + 3] - 128))

RECURSIVE Utf8DecodeFrom(_, _, _)
\* the decoding goes on after the character ch that starts at b[i]
Utf8DecodeNext(b, i, acc, ch) ==
  IF ~ch.ok THEN ch ELSE Utf8DecodeFrom(b, i + ch.n, Append(acc, ch.c))

Utf8DecodeFrom(b, i, acc) ==
  IF i > Len(b) THEN [ok |-> TRUE, text |-> acc]
  ELSE Utf8DecodeNext(b, i, acc, Utf8Char(b, i))

Utf8Decode(b) == Utf8DecodeFrom(b, 1, <<>>)

(***************************************************************************)
(* json.loads.  A decoded value is tagged with its Python type: dict (a    *)
(* function from key text to value), list, str, int, float (sign, decimal  *)
(* mantissa and exponent, normalised), bool, None.  A JSONDecodeError      *)
(* carries its message without the "line, column, char" suffix.            *)
(***************************************************************************)
\* "Expecting value"
T_ExpectingValue ==
  <<69, 120, 112, 101, 99, 116, 105, 110, 103, 32, 118, 97, 108, 117, 101>>
\* "Extra data"
T_ExtraData ==
  <<69, 120, 116, 114, 97, 32, 100, 97, 116, 97>>
\* "Unexpected UTF-8 BOM (decode using utf-8-sig)"
T_UnexpectedBOM ==
  <<85, 110, 101, 120, 112, 101, 99, 116, 101, 100, 32, 85, 84, 70, 45, 56,
    32, 66, 79, 77, 32, 40, 100, 101, 99, 111, 100, 101, 32, 117, 115, 105,
    110, 103, 32, 117, 116, 102, 45, 56, 45, 115, 105, 103, 41>>
\* "Unterminated string starting at"
T_UnterminatedString ==
  <<85, 110, 116, 101, 114, 109, 105, 110, 97, 116, 101, 100, 32, 115, 116,
    114, 105, 110, 103, 32, 115, 116, 97, 114, 116, 105, 110, 103, 32, 97,
    116>>
\* "Invalid control character at"
T_InvalidControl ==
  <<73, 110, 118, 97, 108, 105, 100, 32, 99, 111, 110, 116, 114, 111, 108,
    32, 99, 104, 97, 114, 97, 99, 116, 101, 114, 32, 97, 116>>
\* "Invalid \escape"
T_InvalidEscape ==
  <<73, 110, 118, 97, 108, 105, 100, 32, 92, 101, 115, 99, 97, 112, 101>>
\* "Invalid \uXXXX escape"
T_InvalidUEscape ==
  <<73, 110, 118, 97, 108, 105, 100, 32, 92, 117, 88, 88, 88, 88, 32, 101,
    115, 99, 97, 112, 101>>
\* "Expecting property name enclosed in double quotes"
T_ExpectingName ==
  <<69, 120, 112, 101, 99, 116, 105, 110, 103, 32, 112, 114, 111, 112, 101,
    114, 116, 121, 32, 110, 97, 109, 101, 32, 101, 110, 99, 108, 111, 115,
    101, 100, 32, 105, 110, 32, 100, 111, 117, 98, 108, 101, 32, 113, 117,
    111, 116, 101, 115>>
\* "Expecting ':' delimiter"
T_ExpectingColon ==
  <<69, 120, 112, 101, 99, 116, 105, 110, 103, 32, 39, 58, 39, 32, 100,
    101, 108, 105, 109, 105, 116, 101, 114>>
\* "Expecting ',' delimiter"
T_ExpectingComma ==
  <<69, 120, 112, 101, 99, 116, 105, 110, 103, 32, 39, 44, 39, 32, 100,
    101, 108, 105, 109, 105, 116, 101, 114>>
\* "null"
T_null ==
  <<110, 117, 108, 108>>
\* "true"
T_true ==
  <<116, 114, 117, 101>>
\* "false"
T_false ==
  <<102, 97, 108, 115, 101>>
\* "NaN"
T_NaN ==
  <<78, 97, 78>>
\* "Infinity"
T_Infinity ==
  <<73, 110, 102, 105, 110, 105, 116, 121>>
\* "-Infinity"
T_MinusInfinity ==
  <<45, 73, 110, 102, 105, 110, 105, 116, 121>>
JsonError(msg) == [ok |-> FALSE, exc |-> Exc("JSONDecodeError", <<msg>>)]

JsonOk(v, i) == [ok |-> TRUE, v |-> v, i |-> i]

PyDict(m) == [t |-> "dict", m |-> m]

PyList(a) == [t |-> "list", a |-> a]

PyStr(s) == [t |-> "str", s |-> s]

PyInt(n) == [t |-> "int", n |-> n]

RECURSIVE NormFloat(_, _, _)
NormFloat(neg, m, e) ==
  IF m = 0 THEN [t |-> "float", neg |-> neg, mant |-> 0, exp |-> 0]
  ELSE IF m % 10 = 0 THEN NormFloat(neg, m \div 10, e + 1)
  ELSE [t |-> "float", neg |-> neg, mant |-> m, exp |-> e]

PyFloatSpecial(name) == [t |-> "float", special |-> name]

PyBool(b) == [t |-> "bool", b |-> b]

PyNone == [t |-> "None"]

\* s[i .. i+Len(lit)-1] = lit
StartsWith(s, i, lit) ==
  /\ i + Len(lit) - 1 <= Len(s)
  /\ \A k \in 1..Len(lit) : s[i + k - 1] = lit[k]

RECURSIVE SkipWs(_, _)
SkipWs(s, i) == IF i <= Len(s) /\ IsWs(s[i]) THEN SkipWs(s, i + 1) ELSE i

RECURSIVE ScanDigits(_, _)
ScanDigits(s, i) ==
  IF i <= Len(s) /\ Digit(s[i]) THEN ScanDigits(s, i + 1) ELSE i

\* the value of the decimal digits s[i .. j-1]
RECURSIVE DigitsValue(_, _, _)
DigitsValue(s, i, j) ==
  IF j <= i THEN 0 ELSE DigitsValue(s, i, j - 1) * 10 + (s[j - 1] - 48)

HexVal(c) ==
  IF Digit(c) THEN c - 48
  ELSE IF c >= 97 /\ c <= 102 THEN c - 87
  ELSE IF c >= 65 /\ c <= 70 THEN c - 55
  ELSE -1

\* the four hex digits at s[i .. i+3], or -1
Hex4(s, i) ==
  IF i + 3 > Len(s) \/ \E k \in 0..3 : HexVal(s[i + k]) = -1 THEN -1
  ELSE HexVal(s[i]) * 4096 + HexVal(s[i + 1]) * 256
       + HexVal(s[i + 2]) * 16 + HexVal(s[i + 3])

\* NUMBER_RE = (-?(?:0|[1-9]\d*))(\.\d+)?([eE][-+]?\d+)?
ParseNumber(s, i) ==
  LET neg == i <= Len(s) /\ s[i] = 45
      j == IF neg THEN i + 1 ELSE i
  IN
  IF j > Len(s) \/ ~Digit(s[j]) THEN JsonError(T_ExpectingValue)
  ELSE
    LET intEnd == IF s[j] = 48 THEN j + 1 ELSE ScanDigits(s, j)
        hasFrac == /\ intEnd + 1 <= Len(s)
                   /\ s[intEnd] = 46
                   /\ Digit(s[intEnd + 1])
        fracEnd == IF hasFrac THEN ScanDigits(s, intEnd + 1) ELSE intEnd
        expSign == /\ fracEnd + 1 <= Len(s)
                   /\ s[fracEnd] \in {101, 69}
                   /\ s[fracEnd + 1] \in {43, 45}
        expStart == IF expSign THEN fracEnd + 2 ELSE fracEnd + 1
        hasExp == /\ fracEnd <= Len(s)
                  /\ s[fracEnd] \in {101, 69}
                  /\ expStart <= Len(s)
                  /\ Digit(s[expStart])
        expEnd == IF hasExp THEN ScanDigits(s, expStart) ELSE fracEnd
        intVal == DigitsValue(s, j, intEnd)
        fracLen == IF hasFrac THEN fracEnd - (intEnd + 1) ELSE 0
        fracVal == IF hasFrac THEN DigitsValue(s, intEnd + 1, fracEnd) ELSE 0
        expVal == IF ~hasExp THEN 0
                  ELSE IF expSign /\ s[fracEnd + 1] = 45
                       THEN 0 - DigitsValue(s, expStart, expEnd)
                       ELSE DigitsValue(s, expStart, expEnd)
    IN
    IF ~hasFrac /\ ~hasExp
    THEN JsonOk(PyInt(IF neg THEN 0 - intVal ELSE intVal), intEnd)
    ELSE JsonOk(NormFloat(neg, intVal * Pow10(fracLen) + fracVal,
                          expVal - fracLen), expEnd)

\* the character of a string that starts at s[k]: the character it stands
\* for and the position after it (py_scanstring, strict mode)
StringChar(s, k) ==
  LET Char(c, n) == [ok |-> TRUE, c |-> c, i |-> k + n] IN
  IF s[k] < 32 THEN JsonError(T_InvalidControl)
  ELSE IF s[k] # 92 THEN Char(s[k], 1)
  ELSE IF k + 1 > Len(s) THEN JsonError(T_UnterminatedString)
  ELSE
    LET esc == s[k + 1] IN
    IF esc = 117
    THEN LET u == Hex4(s, k + 2)
             u2 == IF StartsWith(s, k + 6, <<92, 117>>)
                   THEN Hex4(s, k + 8) ELSE -1
         IN
         IF u = -1 THEN JsonError(T_InvalidUEscape)
         ELSE IF u \in 55296..56319 /\ u2 \in 56320..57343
           THEN Char(65536 + (u - 55296) * 1024 + (u2 - 56320), 12)
         ELSE Char(u, 6)
    ELSE IF esc \in {34, 92, 47} THEN Char(esc, 2)
    ELSE IF esc = 98 THEN Char(8, 2)
    ELSE IF esc = 102 THEN Char(12, 2)
    ELSE IF esc = 110 THEN Char(10, 2)
    ELSE IF esc = 114 THEN Char(13, 2)
    ELSE IF esc = 116 THEN Char(9, 2)
    ELSE JsonError(T_InvalidEscape)

RECURSIVE ScanString(_, _, _)
\* the string goes on after the character ch
ScanStringNext(s, acc, ch) ==
  IF ~ch.ok THEN ch ELSE ScanString(s, ch.i, Append(acc, ch.c))

\* py_scanstring from the character after the opening quote
ScanString(s, k, acc) ==
  IF k > Len(s) THEN JsonError(T_UnterminatedString)
  ELSE IF s[k] = 34 THEN JsonOk(PyStr(acc), k + 1)
  ELSE ScanStringNext(s, acc, StringChar(s, k))

RECURSIVE ScanOnce(_, _)
RECURSIVE ArrayItems(_, _, _)
RECURSIVE ObjectPairs(_, _, _)

\* after the item r of a list: "]" ends the list, "," starts the next item
ArrayAfterItem(s, acc, r) ==
  IF ~r.ok THEN r
  ELSE IF SkipWs(s, r.i) <= Len(s) /\ s[SkipWs(s, r.i)] = 93
    THEN JsonOk(PyList(Append(acc, r.v)), SkipWs(s, r.i) + 1)
  ELSE IF SkipWs(s, r.i) <= Len(s) /\ s[SkipWs(s, r.i)] = 44
    THEN ArrayItems(s, SkipWs(s, SkipWs(s, r.i) + 1), Append(acc, r.v))
  ELSE JsonError(T_ExpectingComma)

\* JSONArray: the items from s[i] on
ArrayItems(s, i, acc) == ArrayAfterItem(s, acc, ScanOnce(s, i))

\* after the value r of the key k: "}" ends the object, "," starts the next
\* pair; a repeated key keeps the last value
ObjectAfterValue(s, acc, k, r) ==
  IF ~r.ok THEN r
  ELSE IF SkipWs(s, r.i) <= Len(s) /\ s[SkipWs(s, r.i)] = 125
    THEN JsonOk(PyDict((k :> r.v) @@ acc), SkipWs(s, r.i) + 1)
  ELSE IF SkipWs(s, r.i) <= Len(s) /\ s[SkipWs(s, r.i)] = 44
    THEN ObjectPairs(s, SkipWs(s, SkipWs(s, r.i) + 1), (k :> r.v) @@ acc)
  ELSE JsonError(T_ExpectingComma)

\* after the key k: the ":" and the value
ObjectAfterKey(s, acc, k) ==
  IF ~k.ok THEN k
  ELSE IF SkipWs(s, k.i) > Len(s) \/ s[SkipWs(s, k.i)] # 58
    THEN JsonError(T_ExpectingColon)
  ELSE ObjectAfterValue(s, acc, k.v.s,
                        ScanOnce(s, SkipWs(s, SkipWs(s, k.i) + 1)))

\* JSONObject: the pairs from s[i] on, s[i] the opening quote of a key
ObjectPairs(s, i, acc) ==
  IF i > Len(s) \/ s[i] # 34 THEN JsonError(T_ExpectingName)
  ELSE ObjectAfterKey(s, acc, ScanString(s, i + 1, <<>>))

\* py_make_scanner._scan_once: the value that starts at s[i]
ScanOnce(s, i) ==
  IF i > Len(s) THEN JsonError(T_ExpectingValue)
  ELSE IF s[i] = 34 THEN ScanString(s, i + 1, <<>>)
  ELSE IF s[i] = 123
    THEN IF SkipWs(s, i + 1) <= Len(s) /\ s[SkipWs(s, i + 1)] = 125
         THEN JsonOk(PyDict(<<>>), SkipWs(s, i + 1) + 1)
         ELSE ObjectPairs(s, SkipWs(s, i + 1), <<>>)
  ELSE IF s[i] = 91
    THEN IF SkipWs(s, i + 1) <= Len(s) /\ s[SkipWs(s, i + 1)] = 93
         THEN JsonOk(PyList(<<>>), SkipWs(s, i + 1) + 1)
         ELSE ArrayItems(s, SkipWs(s, i + 1), <<>>)
  ELSE IF StartsWith(s, i, T_null) THEN JsonOk(PyNone, i + 4)
  ELSE IF StartsWith(s, i, T_true) THEN JsonOk(PyBool(TRUE), i + 4)
  ELSE IF StartsWith(s, i, T_false) THEN JsonOk(PyBool(FALSE), i + 5)
  ELSE IF s[i] = 45 \/ Digit(s[i])
    THEN IF StartsWith(s, i, T_MinusInfinity)
         THEN JsonOk(PyFloatSpecial("-inf"), i + 9)
         ELSE ParseNumber(s, i)
  ELSE IF StartsWith(s, i, T_NaN) THEN JsonOk(PyFloatSpecial("nan"), i + 3)
  ELSE IF StartsWith(s, i, T_Infinity)
    THEN JsonOk(PyFloatSpecial("inf"), i + 8)
  ELSE JsonError(T_ExpectingValue)

\* after the value r: nothing but whitespace may follow
JsonLoadsEnd(s, r) ==
  IF ~r.ok THEN r
  ELSE IF SkipWs(s, r.i) <= Len(s) THEN JsonError(T_ExtraData)
  ELSE r

\* json.loads(text): one value, whitespace around it allowed, nothing else
JsonLoads(s) ==
  IF Len(s) > 0 /\ s[1] = 65279 THEN JsonError(T_UnexpectedBOM)
  ELSE JsonLoadsEnd(s, ScanOnce(s, SkipWs(s, 1)))

(***************************************************************************)
(* The adapters, in the order server.py defines and registers them.  Of an *)
(* adapter: its name, its parameters with their defaults (NoDefault for a  *)
(* required one), the attribute path of the client object it calls, the    *)
(* method it calls there, the keywords it passes (keyword, parameter whose *)
(* value it passes) and the literal it passes as raw.                      *)
(***************************************************************************)
NoDefault == "<required>"

get_aggs ==
  [name |-> "get_aggs",
   params |->
     <<<<"ticker", NoDefault>>, <<"multiplier", NoDefault>>,
       <<"timespan", NoDefault>>, <<"from_", NoDefault>>,
       <<"to", NoDefault>>, <<"adjusted", "None">>, <<"sort", "None">>,
       <<"limit", "None">>, <<"params", "None">>>>,
   client |-> <<"polygon_client">>,
   method |-> "get_aggs",
   kwargs |->
     <<<<"ticker", "ticker">>, <<"multiplier", "multiplier">>,
       <<"timespan", "timespan">>, <<"from_", "from_">>, <<"to", "to">>,
       <<"adjusted", "adjusted">>, <<"sort", "sort">>, <<"limit", "limit">>,
       <<"params", "params">>>>,
   raw |-> "True"]

list_aggs ==
  [name |-> "list_aggs",
   params |->
     <<<<"ticker", NoDefault>>, <<"multiplier", NoDefault>>,
       <<"timespan", NoDefault>>, <<"from_", NoDefault>>,
       <<"to", NoDefault>>, <<"adjusted", "None">>, <<"sort", "None">>,
       <<"limit", "None">>, <<"params", "None">>>>,
   client |-> <<"polygon_client">>,
   method |-> "list_aggs",
   kwargs |->
     <<<<"ticker", "ticker">>, <<"multiplier", "multiplier">>,
       <<"timespan", "timespan">>, <<"from_", "from_">>, <<"to", "to">>,
       <<"adjusted", "adjusted">>, <<"sort", "sort">>, <<"limit", "limit">>,
       <<"params", "params">>>>,
   raw |-> "True"]

get_grouped_daily_aggs ==
  [name |-> "get_grouped_daily_aggs",
   params |->
     <<<<"date", NoDefault>>, <<"adjusted", "None">>,
       <<"include_otc", "None">>, <<"locale", "None">>,
       <<"market_type", "None">>, <<"params", "None">>>>,
   client |-> <<"polygon_client">>,
   method |-> "get_grouped_daily_aggs",
   kwargs |->
     <<<<"date", "date">>, <<"adjusted", "adjusted">>,
       <<"include_otc", "include_otc">>, <<"locale", "locale">>,
       <<"market_type", "market_type">>, <<"params", "params">>>>,
   raw |-> "True"]

get_daily_open_close_agg ==
  [name |-> "get_daily_open_close_agg",
   params |->
     <<<<"ticker", NoDefault>>, <<"date", NoDefault>>,
       <<"adjusted", "None">>, <<"params", "None">>>>,
   client |-> <<"polygon_client">>,
   method |-> "get_daily_open_close_agg",
   kwargs |->
     <<<<"ticker", "ticker">>, <<"date", "date">>,
       <<"adjusted", "adjusted">>, <<"params", "params">>>>,
   raw |-> "True"]

get_previous_close_agg ==
  [name |-> "get_previous_close_agg",
   params |->
     <<<<"ticker", NoDefault>>, <<"adjusted", "None">>, <<"params", "None">>>>,
   client |-> <<"polygon_client">>,
   method |-> "get_previous_close_agg",
   kwargs |->
     <<<<"ticker", "ticker">>, <<"adjusted", "adjusted">>,
       <<"params", "params">>>>,
   raw |-> "True"]

list_trades ==
  [name |-> "list_trades",
   params |->
     <<<<"ticker", NoDefault>>, <<"timestamp", "None">>,
       <<"timestamp_lt", "None">>, <<"timestamp_lte", "None">>,
       <<"timestamp_gt", "None">>, <<"timestamp_gte", "None">>,
       <<"limit", "None">>, <<"sort", "None">>, <<"order", "None">>,
       <<"params", "None">>>>,
   client |-> <<"polygon_client">>,
   method |-> "list_trades",
   kwargs |->
     <<<<"ticker", "ticker">>, <<"timestamp", "timestamp">>,
       <<"timestamp_lt", "timestamp_lt">>,
       <<"timestamp_lte", "timestamp_lte">>,
       <<"timestamp_gt", "timestamp_gt">>,
       <<"timestamp_gte", "timestamp_gte">>, <<"limit", "limit">>,
       <<"sort", "sort">>, <<"order", "order">>, <<"params", "params">>>>,
   raw |-> "True"]

\* variant: the call asks for the decoded form
get_last_trade_decoded ==
  [name |-> "get_last_trade",
   params |->
     <<<<"ticker", NoDefault>>, <<"params", "None">>>>,
   client |-> <<"polygon_client">>,
   method |-> "get_last_trade",
   kwargs |->
     <<<<"ticker", "ticker">>, <<"params", "params">>>>,
   raw |-> "False"]

get_last_trade ==
  [name |-> "get_last_trade",
   params |->
     <<<<"ticker", NoDefault>>, <<"params", "None">>>>,
   client |-> <<"polygon_client">>,
   method |-> "get_last_trade",
   kwargs |->
     <<<<"ticker", "ticker">>, <<"params", "params">>>>,
   raw |-> "True"]

get_last_crypto_trade ==
  [name |-> "get_last_crypto_trade",
   params |->
     <<<<"from_", NoDefault>>, <<"to", NoDefault>>, <<"params", "None">>>>,
   client |-> <<"polygon_client">>,
   method |-> "get_last_crypto_trade",
   kwargs |->
     <<<<"from_", "from_">>, <<"to", "to">>, <<"params", "params">>>>,
   raw |-> "True"]

list_quotes ==
  [name |-> "list_quotes",
   params |->
     <<<<"ticker", NoDefault>>, <<"timestamp", "None">>,
       <<"timestamp_lt", "None">>, <<"timestamp_lte", "None">>,
       <<"timestamp_gt", "None">>, <<"timestamp_gte", "None">>,
       <<"limit", "None">>, <<"sort", "None">>, <<"order", "None">>,
       <<"params", "None">>>>,
   client |-> <<"polygon_client">>,
   method |-> "list_quotes",
   kwargs |->
     <<<<"ticker", "ticker">>, <<"timestamp", "timestamp">>,
       <<"timestamp_lt", "timestamp_lt">>,
       <<"timestamp_lte", "timestamp_lte">>,
       <<"timestamp_gt", "timestamp_gt">>,
       <<"timestamp_gte", "timestamp_gte">>, <<"limit", "limit">>,
       <<"sort", "sort">>, <<"order", "order">>, <<"params", "params">>>>,
   raw |-> "True"]

\* variant: the body calls the method of the definition above it
get_last_quote_copied ==
  [name |-> "get_last_quote",
   params |->
     <<<<"ticker", NoDefault>>, <<"params", "None">>>>,
   client |-> <<"polygon_client">>,
   method |-> "list_quotes",
   kwargs |->
     <<<<"ticker", "ticker">>, <<"params", "params">>>>,
   raw |-> "True"]

get_last_quote ==
  [name |-> "get_last_quote",
   params |->
     <<<<"ticker", NoDefault>>, <<"params", "None">>>>,
   client |-> <<"polygon_client">>,
   method |-> "get_last_quote",
   kwargs |->
     <<<<"ticker", "ticker">>, <<"params", "params">>>>,
   raw |-> "True"]

get_last_forex_quote ==
  [name |-> "get_last_forex_quote",
   params |->
     <<<<"from_", NoDefault>>, <<"to", NoDefault>>, <<"params", "None">>>>,
   client |-> <<"polygon_client">>,
   method |-> "get_last_forex_quote",
   kwargs |->
     <<<<"from_", "from_">>, <<"to", "to">>, <<"params", "params">>>>,
   raw |-> "True"]

get_real_time_currency_conversion ==
  [name |-> "get_real_time_currency_conversion",
   params |->
     <<<<"from_", NoDefault>>, <<"to", NoDefault>>, <<"amount", "None">>,
       <<"precision", "None">>, <<"params", "None">>>>,
   client |-> <<"polygon_client">>,
   method |-> "get_real_time_currency_conversion",
   kwargs |->
     <<<<"from_", "from_">>, <<"to", "to">>, <<"amount", "amount">>,
       <<"precision", "precision">>, <<"params", "params">>>>,
   raw |-> "True"]

list_universal_snapshots ==
  [name |-> "list_universal_snapshots",
   params |->
     <<<<"type", NoDefault>>, <<"ticker_any_of", "None">>,
       <<"order", "None">>, <<"limit", "None">>, <<"sort", "None">>,
       <<"params", "None">>>>,
   client |-> <<"polygon_client">>,
   method |-> "list_universal_snapshots",
   kwargs |->
     <<<<"type", "type">>, <<"ticker_any_of", "ticker_any_of">>,
       <<"order", "order">>, <<"limit", "limit">>, <<"sort", "sort">>,
       <<"params", "params">>>>,
   raw |-> "True"]

get_snapshot_all ==
  [name |-> "get_snapshot_all",
   params |->
     <<<<"market_type", NoDefault>>, <<"tickers", "None">>,
       <<"include_otc", "None">>, <<"params", "None">>>>,
   client |-> <<"polygon_client">>,
   method |-> "get_snapshot_all",
   kwargs |->
     <<<<"market_type", "market_type">>, <<"tickers", "tickers">>,
       <<"include_otc", "include_otc">>, <<"params", "params">>>>,
   raw |-> "True"]

get_snapshot_direction ==
  [name |-> "get_snapshot_direction",
   params |->
     <<<<"market_type", NoDefault>>, <<"direction", NoDefault>>,
       <<"include_otc", "None">>, <<"params", "None">>>>,
   client |-> <<"polygon_client">>,
   method |-> "get_snapshot_direction",
   kwargs |->
     <<<<"market_type", "market_type">>, <<"direction", "direction">>,
       <<"include_otc", "include_otc">>, <<"params", "params">>>>,
   raw |-> "True"]

get_snapshot_ticker ==
  [name |-> "get_snapshot_ticker",
   params |->
     <<<<"market_type", NoDefault>>, <<"ticker", NoDefault>>,
       <<"params", "None">>>>,
   client |-> <<"polygon_client">>,
   method |-> "get_snapshot_ticker",
   kwargs |->
     <<<<"market_type", "market_type">>, <<"ticker", "ticker">>,
       <<"params", "params">>>>,
   raw |-> "True"]

get_snapshot_option ==
  [name |-> "get_snapshot_option",
   params |->
     <<<<"underlying_asset", NoDefault>>, <<"option_contract", NoDefault>>,
       <<"params", "None">>>>,
   client |-> <<"polygon_client">>,
   method |-> "get_snapshot_option",
   kwargs |->
     <<<<"underlying_asset", "underlying_asset">>,
       <<"option_contract", "option_contract">>, <<"params", "params">>>>,
   raw |-> "True"]

get_snapshot_crypto_book ==
  [name |-> "get_snapshot_crypto_book",
   params |->
     <<<<"ticker", NoDefault>>, <<"params", "None">>>>,
   client |-> <<"polygon_client">>,
   method |-> "get_snapshot_crypto_book",
   kwargs |->
     <<<<"ticker", "ticker">>, <<"params", "params">>>>,
   raw |-> "True"]

get_market_holidays ==
  [name |-> "get_market_holidays",
   params |->
     <<<<"params", "None">>>>,
   client |-> <<"polygon_client">>,
   method |-> "get_market_holidays",
   kwargs |->
     <<<<"params", "params">>>>,
   raw |-> "True"]

get_market_status ==
  [name |-> "get_market_status",
   params |->
     <<<<"params", "None">>>>,
   client |-> <<"polygon_client">>,
   method |-> "get_market_status",
   kwargs |->
     <<<<"params", "params">>>>,
   raw |-> "True"]

list_tickers ==
  [name |-> "list_tickers",
   params |->
     <<<<"ticker", "None">>, <<"type", "None">>, <<"market", "None">>,
       <<"exchange", "None">>, <<"cusip", "None">>, <<"cik", "None">>,
       <<"date", "None">>, <<"search", "None">>, <<"active", "None">>,
       <<"sort", "None">>, <<"order", "None">>, <<"limit", "None">>,
       <<"params", "None">>>>,
   client |-> <<"polygon_client">>,
   method |-> "list_tickers",
   kwargs |->
     <<<<"ticker", "ticker">>, <<"type", "type">>, <<"market", "market">>,
       <<"exchange", "exchange">>, <<"cusip", "cusip">>, <<"cik", "cik">>,
       <<"date", "date">>, <<"search", "search">>, <<"active", "active">>,
       <<"sort", "sort">>, <<"order", "order">>, <<"limit", "limit">>,
       <<"params", "params">>>>,
   raw |-> "True"]

get_ticker_details ==
  [name |-> "get_ticker_details",
   params |->
     <<<<"ticker", NoDefault>>, <<"date", "None">>, <<"params", "None">>>>,
   client |-> <<"polygon_client">>,
   method |-> "get_ticker_details",
   kwargs |->
     <<<<"ticker", "ticker">>, <<"date", "date">>, <<"params", "params">>>>,
   raw |-> "True"]

list_ticker_news ==
  [name |-> "list_ticker_news",
   params |->
     <<<<"ticker", "None">>, <<"published_utc", "None">>,
       <<"limit", "None">>, <<"sort", "None">>, <<"order", "None">>,
       <<"params", "None">>>>,
   client |-> <<"polygon_client">>,
   method |-> "list_ticker_news",
   kwargs |->
     <<<<"ticker", "ticker">>, <<"published_utc", "published_utc">>,
       <<"limit", "limit">>, <<"sort", "sort">>, <<"order", "order">>,
       <<"params", "params">>>>,
   raw |-> "True"]

get_ticker_types ==
  [name |-> "get_ticker_types",
   params |->
     <<<<"asset_class", "None">>, <<"locale", "None">>, <<"params", "None">>>>,
   client |-> <<"polygon_client">>,
   method |-> "get_ticker_types",
   kwargs |->
     <<<<"asset_class", "asset_class">>, <<"locale", "locale">>,
       <<"params", "params">>>>,
   raw |-> "True"]

list_splits ==
  [name |-> "list_splits",
   params |->
     <<<<"ticker", "None">>, <<"execution_date", "None">>,
       <<"reverse_split", "None">>, <<"limit", "None">>,
       <<"params", "None">>>>,
   client |-> <<"polygon_client">>,
   method |-> "list_splits",
   kwargs |->
     <<<<"ticker", "ticker">>, <<"execution_date", "execution_date">>,
       <<"reverse_split", "reverse_split">>, <<"limit", "limit">>,
       <<"params", "params">>>>,
   raw |-> "True"]

list_dividends ==
  [name |-> "list_dividends",
   params |->
     <<<<"ticker", "None">>, <<"ex_dividend_date", "None">>,
       <<"frequency", "None">>, <<"dividend_type", "None">>,
       <<"limit", "None">>, <<"params", "None">>>>,
   client |-> <<"polygon_client">>,
   method |-> "list_dividends",
   kwargs |->
     <<<<"ticker", "ticker">>, <<"ex_dividend_date", "ex_dividend_date">>,
       <<"frequency", "frequency">>, <<"dividend_type", "dividend_type">>,
       <<"limit", "limit">>, <<"params", "params">>>>,
   raw |-> "True"]

list_conditions ==
  [name |-> "list_conditions",
   params |->
     <<<<"asset_class", "None">>, <<"data_type", "None">>, <<"id", "None">>,
       <<"sip", "None">>, <<"params", "None">>>>,
   client |-> <<"polygon_client">>,
   method |-> "list_conditions",
   kwargs |->
     <<<<"asset_class", "asset_class">>, <<"data_type", "data_type">>,
       <<"id", "id">>, <<"sip", "sip">>, <<"params", "params">>>>,
   raw |-> "True"]

get_exchanges ==
  [name |-> "get_exchanges",
   params |->
     <<<<"asset_class", "None">>, <<"locale", "None">>, <<"params", "None">>>>,
   client |-> <<"polygon_client">>,
   method |-> "get_exchanges",
   kwargs |->
     <<<<"asset_class", "asset_class">>, <<"locale", "locale">>,
       <<"params", "params">>>>,
   raw |-> "True"]

list_stock_financials ==
  [name |-> "list_stock_financials",
   params |->
     <<<<"ticker", "None">>, <<"cik", "None">>, <<"company_name", "None">>,
       <<"company_name_search", "None">>, <<"sic", "None">>,
       <<"filing_date", "None">>, <<"filing_date_lt", "None">>,
       <<"filing_date_lte", "None">>, <<"filing_date_gt", "None">>,
       <<"filing_date_gte", "None">>, <<"period_of_report_date", "None">>,
       <<"period_of_report_date_lt", "None">>,
       <<"period_of_report_date_lte", "None">>,
       <<"period_of_report_date_gt", "None">>,
       <<"period_of_report_date_gte", "None">>, <<"timeframe", "None">>,
       <<"include_sources", "None">>, <<"limit", "None">>,
       <<"sort", "None">>, <<"order", "None">>, <<"params", "None">>>>,
   client |-> <<"polygon_client", "vx">>,
   method |-> "list_stock_financials",
   kwargs |->
     <<<<"ticker", "ticker">>, <<"cik", "cik">>,
       <<"company_name", "company_name">>,
       <<"company_name_search", "company_name_search">>, <<"sic", "sic">>,
       <<"filing_date", "filing_date">>,
       <<"filing_date_lt", "filing_date_lt">>,
       <<"filing_date_lte", "filing_date_lte">>,
       <<"filing_date_gt", "filing_date_gt">>,
       <<"filing_date_gte", "filing_date_gte">>,
       <<"period_of_report_date", "period_of_report_date">>,
       <<"period_of_report_date_lt", "period_of_report_date_lt">>,
       <<"period_of_report_date_lte", "period_of_report_date_lte">>,
       <<"period_of_report_date_gt", "period_of_report_date_gt">>,
       <<"period_of_report_date_gte", "period_of_report_date_gte">>,
       <<"timeframe", "timeframe">>,
       <<"include_sources", "include_sources">>, <<"limit", "limit">>,
       <<"sort", "sort">>, <<"order", "order">>, <<"params", "params">>>>,
   raw |-> "True"]

\* variant: the definition repeats the name of the one before it
list_ipos_renamed ==
  [name |-> "list_stock_financials",
   params |->
     <<<<"ticker", "None">>, <<"listing_date", "None">>,
       <<"listing_date_lt", "None">>, <<"listing_date_lte", "None">>,
       <<"listing_date_gt", "None">>, <<"listing_date_gte", "None">>,
       <<"ipo_status", "None">>, <<"limit", "None">>, <<"sort", "None">>,
       <<"order", "None">>, <<"params", "None">>>>,
   client |-> <<"polygon_client", "vx">>,
   method |-> "list_ipos",
   kwargs |->
     <<<<"ticker", "ticker">>, <<"listing_date", "listing_date">>,
       <<"listing_date_lt", "listing_date_lt">>,
       <<"listing_date_lte", "listing_date_lte">>,
       <<"listing_date_gt", "listing_date_gt">>,
       <<"listing_date_gte", "listing_date_gte">>,
       <<"ipo_status", "ipo_status">>, <<"limit", "limit">>,
       <<"sort", "sort">>, <<"order", "order">>, <<"params", "params">>>>,
   raw |-> "True"]

list_ipos ==
  [name |-> "list_ipos",
   params |->
     <<<<"ticker", "None">>, <<"listing_date", "None">>,
       <<"listing_date_lt", "None">>, <<"listing_date_lte", "None">>,
       <<"listing_date_gt", "None">>, <<"listing_date_gte", "None">>,
       <<"ipo_status", "None">>, <<"limit", "None">>, <<"sort", "None">>,
       <<"order", "None">>, <<"params", "None">>>>,
   client |-> <<"polygon_client", "vx">>,
   method |-> "list_ipos",
   kwargs |->
     <<<<"ticker", "ticker">>, <<"listing_date", "listing_date">>,
       <<"listing_date_lt", "listing_date_lt">>,
       <<"listing_date_lte", "listing_date_lte">>,
       <<"listing_date_gt", "listing_date_gt">>,
       <<"listing_date_gte", "listing_date_gte">>,
       <<"ipo_status", "ipo_status">>, <<"limit", "limit">>,
       <<"sort", "sort">>, <<"order", "order">>, <<"params", "params">>>>,
   raw |-> "True"]

list_short_interest ==
  [name |-> "list_short_interest",
   params |->
     <<<<"ticker", "None">>, <<"settlement_date", "None">>,
       <<"settlement_date_lt", "None">>, <<"settlement_date_lte", "None">>,
       <<"settlement_date_gt", "None">>, <<"settlement_date_gte", "None">>,
       <<"limit", "None">>, <<"sort", "None">>, <<"order", "None">>,
       <<"params", "None">>>>,
   client |-> <<"polygon_client">>,
   method |-> "list_short_interest",
   kwargs |->
     <<<<"ticker", "ticker">>, <<"settlement_date", "settlement_date">>,
       <<"settlement_date_lt", "settlement_date_lt">>,
       <<"settlement_date_lte", "settlement_date_lte">>,
       <<"settlement_date_gt", "settlement_date_gt">>,
       <<"settlement_date_gte", "settlement_date_gte">>,
       <<"limit", "limit">>, <<"sort", "sort">>, <<"order", "order">>,
       <<"params", "params">>>>,
   raw |-> "True"]

list_short_volume ==
  [name |-> "list_short_volume",
   params |->
     <<<<"ticker", "None">>, <<"date", "None">>, <<"date_lt", "None">>,
       <<"date_lte", "None">>, <<"date_gt", "None">>, <<"date_gte", "None">>,
       <<"limit", "None">>, <<"sort", "None">>, <<"order", "None">>,
       <<"params", "None">>>>,
   client |-> <<"polygon_client">>,
   method |-> "list_short_volume",
   kwargs |->
     <<<<"ticker", "ticker">>, <<"date", "date">>, <<"date_lt", "date_lt">>,
       <<"date_lte", "date_lte">>, <<"date_gt", "date_gt">>,
       <<"date_gte", "date_gte">>, <<"limit", "limit">>, <<"sort", "sort">>,
       <<"order", "order">>, <<"params", "params">>>>,
   raw |-> "True"]

list_treasury_yields ==
  [name |-> "list_treasury_yields",
   params |->
     <<<<"date", "None">>, <<"date_any_of", "None">>, <<"date_lt", "None">>,
       <<"date_lte", "None">>, <<"date_gt", "None">>, <<"date_gte", "None">>,
       <<"limit", "None">>, <<"sort", "None">>, <<"order", "None">>,
       <<"params", "None">>>>,
   client |-> <<"polygon_client">>,
   method |-> "list_treasury_yields",
   kwargs |->
     <<<<"date", "date">>, <<"date_lt", "date_lt">>,
       <<"date_lte", "date_lte">>, <<"date_gt", "date_gt">>,
       <<"date_gte", "date_gte">>, <<"limit", "limit">>, <<"sort", "sort">>,
       <<"order", "order">>, <<"params", "params">>>>,
   raw |-> "True"]

list_inflation ==
  [name |-> "list_inflation",
   params |->
     <<<<"date", "None">>, <<"date_any_of", "None">>, <<"date_gt", "None">>,
       <<"date_gte", "None">>, <<"date_lt", "None">>, <<"date_lte", "None">>,
       <<"limit", "None">>, <<"sort", "None">>, <<"params", "None">>>>,
   client |-> <<"polygon_client">>,
   method |-> "list_inflation",
   kwargs |->
     <<<<"date", "date">>, <<"date_any_of", "date_any_of">>,
       <<"date_gt", "date_gt">>, <<"date_gte", "date_gte">>,
       <<"date_lt", "date_lt">>, <<"date_lte", "date_lte">>,
       <<"limit", "limit">>, <<"sort", "sort">>, <<"params", "params">>>>,
   raw |-> "True"]

list_benzinga_analyst_insights ==
  [name |-> "list_benzinga_analyst_insights",
   params |->
     <<<<"date", "None">>, <<"date_any_of", "None">>, <<"date_gt", "None">>,
       <<"date_gte", "None">>, <<"date_lt", "None">>, <<"date_lte", "None">>,
       <<"ticker", "None">>, <<"ticker_any_of", "None">>,
       <<"ticker_gt", "None">>, <<"ticker_gte", "None">>,
       <<"ticker_lt", "None">>, <<"ticker_lte", "None">>,
       <<"last_updated", "None">>, <<"last_updated_any_of", "None">>,
       <<"last_updated_gt", "None">>, <<"last_updated_gte", "None">>,
       <<"last_updated_lt", "None">>, <<"last_updated_lte", "None">>,
       <<"firm", "None">>, <<"firm_any_of", "None">>, <<"firm_gt", "None">>,
       <<"firm_gte", "None">>, <<"firm_lt", "None">>, <<"firm_lte", "None">>,
       <<"rating_action", "None">>, <<"rating_action_any_of", "None">>,
       <<"rating_action_gt", "None">>, <<"rating_action_gte", "None">>,
       <<"rating_action_lt", "None">>, <<"rating_action_lte", "None">>,
       <<"benzinga_firm_id", "None">>, <<"benzinga_firm_id_any_of", "None">>,
       <<"benzinga_firm_id_gt", "None">>, <<"benzinga_firm_id_gte", "None">>,
       <<"benzinga_firm_id_lt", "None">>, <<"benzinga_firm_id_lte", "None">>,
       <<"benzinga_rating_id", "None">>,
       <<"benzinga_rating_id_any_of", "None">>,
       <<"benzinga_rating_id_gt", "None">>,
       <<"benzinga_rating_id_gte", "None">>,
       <<"benzinga_rating_id_lt", "None">>,
       <<"benzinga_rating_id_lte", "None">>, <<"limit", "None">>,
       <<"sort", "None">>, <<"params", "None">>>>,
   client |-> <<"polygon_client">>,
   method |-> "list_benzinga_analyst_insights",
   kwargs |->
     <<<<"date", "date">>, <<"date_any_of", "date_any_of">>,
       <<"date_gt", "date_gt">>, <<"date_gte", "date_gte">>,
       <<"date_lt", "date_lt">>, <<"date_lte", "date_lte">>,
       <<"ticker", "ticker">>, <<"ticker_any_of", "ticker_any_of">>,
       <<"ticker_gt", "ticker_gt">>, <<"ticker_gte", "ticker_gte">>,
       <<"ticker_lt", "ticker_lt">>, <<"ticker_lte", "ticker_lte">>,
       <<"last_updated", "last_updated">>,
       <<"last_updated_any_of", "last_updated_any_of">>,
       <<"last_updated_gt", "last_updated_gt">>,
       <<"last_updated_gte", "last_updated_gte">>,
       <<"last_updated_lt", "last_updated_lt">>,
       <<"last_updated_lte", "last_updated_lte">>, <<"firm", "firm">>,
       <<"firm_any_of", "firm_any_of">>, <<"firm_gt", "firm_gt">>,
       <<"firm_gte", "firm_gte">>, <<"firm_lt", "firm_lt">>,
       <<"firm_lte", "firm_lte">>, <<"rating_action", "rating_action">>,
       <<"rating_action_any_of", "rating_action_any_of">>,
       <<"rating_action_gt", "rating_action_gt">>,
       <<"rating_action_gte", "rating_action_gte">>,
       <<"rating_action_lt", "rating_action_lt">>,
       <<"rating_action_lte", "rating_action_lte">>,
       <<"benzinga_firm_id", "benzinga_firm_id">>,
       <<"benzinga_firm_id_any_of", "benzinga_firm_id_any_of">>,
       <<"benzinga_firm_id_gt", "benzinga_firm_id_gt">>,
       <<"benzinga_firm_id_gte", "benzinga_firm_id_gte">>,
       <<"benzinga_firm_id_lt", "benzinga_firm_id_lt">>,
       <<"benzinga_firm_id_lte", "benzinga_firm_id_lte">>,
       <<"benzinga_rating_id", "benzinga_rating_id">>,
       <<"benzinga_rating_id_any_of", "benzinga_rating_id_any_of">>,
       <<"benzinga_rating_id_gt", "benzinga_rating_id_gt">>,
       <<"benzinga_rating_id_gte", "benzinga_rating_id_gte">>,
       <<"benzinga_rating_id_lt", "benzinga_rating_id_lt">>,
       <<"benzinga_rating_id_lte", "benzinga_rating_id_lte">>,
       <<"limit", "limit">>, <<"sort", "sort">>, <<"params", "params">>>>,
   raw |-> "True"]

list_benzinga_analysts ==
  [name |-> "list_benzinga_analysts",
   params |->
     <<<<"benzinga_id", "None">>, <<"benzinga_id_any_of", "None">>,
       <<"benzinga_id_gt", "None">>, <<"benzinga_id_gte", "None">>,
       <<"benzinga_id_lt", "None">>, <<"benzinga_id_lte", "None">>,
       <<"benzinga_firm_id", "None">>, <<"benzinga_firm_id_any_of", "None">>,
       <<"benzinga_firm_id_gt", "None">>, <<"benzinga_firm_id_gte", "None">>,
       <<"benzinga_firm_id_lt", "None">>, <<"benzinga_firm_id_lte", "None">>,
       <<"firm_name", "None">>, <<"firm_name_any_of", "None">>,
       <<"firm_name_gt", "None">>, <<"firm_name_gte", "None">>,
       <<"firm_name_lt", "None">>, <<"firm_name_lte", "None">>,
       <<"full_name", "None">>, <<"full_name_any_of", "None">>,
       <<"full_name_gt", "None">>, <<"full_name_gte", "None">>,
       <<"full_name_lt", "None">>, <<"full_name_lte", "None">>,
       <<"limit", "None">>, <<"sort", "None">>, <<"params", "None">>>>,
   client |-> <<"polygon_client">>,
   method |-> "list_benzinga_analysts",
   kwargs |->
     <<<<"benzinga_id", "benzinga_id">>,
       <<"benzinga_id_any_of", "benzinga_id_any_of">>,
       <<"benzinga_id_gt", "benzinga_id_gt">>,
       <<"benzinga_id_gte", "benzinga_id_gte">>,
       <<"benzinga_id_lt", "benzinga_id_lt">>,
       <<"benzinga_id_lte", "benzinga_id_lte">>,
       <<"benzinga_firm_id", "benzinga_firm_id">>,
       <<"benzinga_firm_id_any_of", "benzinga_firm_id_any_of">>,
       <<"benzinga_firm_id_gt", "benzinga_firm_id_gt">>,
       <<"benzinga_firm_id_gte", "benzinga_firm_id_gte">>,
       <<"benzinga_firm_id_lt", "benzinga_firm_id_lt">>,
       <<"benzinga_firm_id_lte", "benzinga_firm_id_lte">>,
       <<"firm_name", "firm_name">>,
       <<"firm_name_any_of", "firm_name_any_of">>,
       <<"firm_name_gt", "firm_name_gt">>,
       <<"firm_name_gte", "firm_name_gte">>,
       <<"firm_name_lt", "firm_name_lt">>,
       <<"firm_name_lte", "firm_name_lte">>, <<"full_name", "full_name">>,
       <<"full_name_any_of", "full_name_any_of">>,
       <<"full_name_gt", "full_name_gt">>,
       <<"full_name_gte", "full_name_gte">>,
       <<"full_name_lt", "full_name_lt">>,
       <<"full_name_lte", "full_name_lte">>, <<"limit", "limit">>,
       <<"sort", "sort">>, <<"params", "params">>>>,
   raw |-> "True"]

list_benzinga_consensus_ratings ==
  [name |-> "list_benzinga_consensus_ratings",
   params |->
     <<<<"ticker", NoDefault>>, <<"date", "None">>, <<"date_gt", "None">>,
       <<"date_gte", "None">>, <<"date_lt", "None">>, <<"date_lte", "None">>,
       <<"limit", "None">>, <<"params", "None">>>>,
   client |-> <<"polygon_client">>,
   method |-> "list_benzinga_consensus_ratings",
   kwargs |->
     <<<<"ticker", "ticker">>, <<"date", "date">>, <<"date_gt", "date_gt">>,
       <<"date_gte", "date_gte">>, <<"date_lt", "date_lt">>,
       <<"date_lte", "date_lte">>, <<"limit", "limit">>,
       <<"params", "params">>>>,
   raw |-> "True"]

list_benzinga_earnings ==
  [name |-> "list_benzinga_earnings",
   params |->
     <<<<"date", "None">>, <<"date_any_of", "None">>, <<"date_gt", "None">>,
       <<"date_gte", "None">>, <<"date_lt", "None">>, <<"date_lte", "None">>,
       <<"ticker", "None">>, <<"ticker_any_of", "None">>,
       <<"ticker_gt", "None">>, <<"ticker_gte", "None">>,
       <<"ticker_lt", "None">>, <<"ticker_lte", "None">>,
       <<"importance", "None">>, <<"importance_any_of", "None">>,
       <<"importance_gt", "None">>, <<"importance_gte", "None">>,
       <<"importance_lt", "None">>, <<"importance_lte", "None">>,
       <<"last_updated", "None">>, <<"last_updated_any_of", "None">>,
       <<"last_updated_gt", "None">>, <<"last_updated_gte", "None">>,
       <<"last_updated_lt", "None">>, <<"last_updated_lte", "None">>,
       <<"date_status", "None">>, <<"date_status_any_of", "None">>,
       <<"date_status_gt", "None">>, <<"date_status_gte", "None">>,
       <<"date_status_lt", "None">>, <<"date_status_lte", "None">>,
       <<"eps_surprise_percent", "None">>,
       <<"eps_surprise_percent_any_of", "None">>,
       <<"eps_surprise_percent_gt", "None">>,
       <<"eps_surprise_percent_gte", "None">>,
       <<"eps_surprise_percent_lt", "None">>,
       <<"eps_surprise_percent_lte", "None">>,
       <<"revenue_surprise_percent", "None">>,
       <<"revenue_surprise_percent_any_of", "None">>,
       <<"revenue_surprise_percent_gt", "None">>,
       <<"revenue_surprise_percent_gte", "None">>,
       <<"revenue_surprise_percent_lt", "None">>,
       <<"revenue_surprise_percent_lte", "None">>, <<"fiscal_year", "None">>,
       <<"fiscal_year_any_of", "None">>, <<"fiscal_year_gt", "None">>,
       <<"fiscal_year_gte", "None">>, <<"fiscal_year_lt", "None">>,
       <<"fiscal_year_lte", "None">>, <<"fiscal_period", "None">>,
       <<"fiscal_period_any_of", "None">>, <<"fiscal_period_gt", "None">>,
       <<"fiscal_period_gte", "None">>, <<"fiscal_period_lt", "None">>,
       <<"fiscal_period_lte", "None">>, <<"limit", "None">>,
       <<"sort", "None">>, <<"params", "None">>>>,
   client |-> <<"polygon_client">>,
   method |-> "list_benzinga_earnings",
   kwargs |->
     <<<<"date", "date">>, <<"date_any_of", "date_any_of">>,
       <<"date_gt", "date_gt">>, <<"date_gte", "date_gte">>,
       <<"date_lt", "date_lt">>, <<"date_lte", "date_lte">>,
       <<"ticker", "ticker">>, <<"ticker_any_of", "ticker_any_of">>,
       <<"ticker_gt", "ticker_gt">>, <<"ticker_gte", "ticker_gte">>,
       <<"ticker_lt", "ticker_lt">>, <<"ticker_lte", "ticker_lte">>,
       <<"importance", "importance">>,
       <<"importance_any_of", "importance_any_of">>,
       <<"importance_gt", "importance_gt">>,
       <<"importance_gte", "importance_gte">>,
       <<"importance_lt", "importance_lt">>,
       <<"importance_lte", "importance_lte">>,
       <<"last_updated", "last_updated">>,
       <<"last_updated_any_of", "last_updated_any_of">>,
       <<"last_updated_gt", "last_updated_gt">>,
       <<"last_updated_gte", "last_updated_gte">>,
       <<"last_updated_lt", "last_updated_lt">>,
       <<"last_updated_lte", "last_updated_lte">>,
       <<"date_status", "date_status">>,
       <<"date_status_any_of", "date_status_any_of">>,
       <<"date_status_gt", "date_status_gt">>,
       <<"date_status_gte", "date_status_gte">>,
       <<"date_status_lt", "date_status_lt">>,
       <<"date_status_lte", "date_status_lte">>,
       <<"eps_surprise_percent", "eps_surprise_percent">>,
       <<"eps_surprise_percent_any_of", "eps_surprise_percent_any_of">>,
       <<"eps_surprise_percent_gt", "eps_surprise_percent_gt">>,
       <<"eps_surprise_percent_gte", "eps_surprise_percent_gte">>,
       <<"eps_surprise_percent_lt", "eps_surprise_percent_lt">>,
       <<"eps_surprise_percent_lte", "eps_surprise_percent_lte">>,
       <<"revenue_surprise_percent", "revenue_surprise_percent">>,
       <<"revenue_surprise_percent_any_of", "revenue_surprise_percent_any_of">>,
       <<"revenue_surprise_percent_gt", "revenue_surprise_percent_gt">>,
       <<"revenue_surprise_percent_gte", "revenue_surprise_percent_gte">>,
       <<"revenue_surprise_percent_lt", "revenue_surprise_percent_lt">>,
       <<"revenue_surprise_percent_lte", "revenue_surprise_percent_lte">>,
       <<"fiscal_year", "fiscal_year">>,
       <<"fiscal_year_any_of", "fiscal_year_any_of">>,
       <<"fiscal_year_gt", "fiscal_year_gt">>,
       <<"fiscal_year_gte", "fiscal_year_gte">>,
       <<"fiscal_year_lt", "fiscal_year_lt">>,
       <<"fiscal_year_lte", "fiscal_year_lte">>,
       <<"fiscal_period", "fiscal_period">>,
       <<"fiscal_period_any_of", "fiscal_period_any_of">>,
       <<"fiscal_period_gt", "fiscal_period_gt">>,
       <<"fiscal_period_gte", "fiscal_period_gte">>,
       <<"fiscal_period_lt", "fiscal_period_lt">>,
       <<"fiscal_period_lte", "fiscal_period_lte">>, <<"limit", "limit">>,
       <<"sort", "sort">>, <<"params", "params">>>>,
   raw |-> "True"]

list_benzinga_firms ==
  [name |-> "list_benzinga_firms",
   params |->
     <<<<"benzinga_id", "None">>, <<"benzinga_id_any_of", "None">>,
       <<"benzinga_id_gt", "None">>, <<"benzinga_id_gte", "None">>,
       <<"benzinga_id_lt", "None">>, <<"benzinga_id_lte", "None">>,
       <<"limit", "None">>, <<"sort", "None">>, <<"params", "None">>>>,
   client |-> <<"polygon_client">>,
   method |-> "list_benzinga_firms",
   kwargs |->
     <<<<"benzinga_id", "benzinga_id">>,
       <<"benzinga_id_any_of", "benzinga_id_any_of">>,
       <<"benzinga_id_gt", "benzinga_id_gt">>,
       <<"benzinga_id_gte", "benzinga_id_gte">>,
       <<"benzinga_id_lt", "benzinga_id_lt">>,
       <<"benzinga_id_lte", "benzinga_id_lte">>, <<"limit", "limit">>,
       <<"sort", "sort">>, <<"params", "params">>>>,
   raw |-> "True"]

list_benzinga_guidance ==
  [name |-> "list_benzinga_guidance",
   params |->
     <<<<"date", "None">>, <<"date_any_of", "None">>, <<"date_gt", "None">>,
       <<"date_gte", "None">>, <<"date_lt", "None">>, <<"date_lte", "None">>,
       <<"ticker", "None">>, <<"ticker_any_of", "None">>,
       <<"ticker_gt", "None">>, <<"ticker_gte", "None">>,
       <<"ticker_lt", "None">>, <<"ticker_lte", "None">>,
       <<"positioning", "None">>, <<"positioning_any_of", "None">>,
       <<"positioning_gt", "None">>, <<"positioning_gte", "None">>,
       <<"positioning_lt", "None">>, <<"positioning_lte", "None">>,
       <<"importance", "None">>, <<"importance_any_of", "None">>,
       <<"importance_gt", "None">>, <<"importance_gte", "None">>,
       <<"importance_lt", "None">>, <<"importance_lte", "None">>,
       <<"last_updated", "None">>, <<"last_updated_any_of", "None">>,
       <<"last_updated_gt", "None">>, <<"last_updated_gte", "None">>,
       <<"last_updated_lt", "None">>, <<"last_updated_lte", "None">>,
       <<"fiscal_year", "None">>, <<"fiscal_year_any_of", "None">>,
       <<"fiscal_year_gt", "None">>, <<"fiscal_year_gte", "None">>,
       <<"fiscal_year_lt", "None">>, <<"fiscal_year_lte", "None">>,
       <<"fiscal_period", "None">>, <<"fiscal_period_any_of", "None">>,
       <<"fiscal_period_gt", "None">>, <<"fiscal_period_gte", "None">>,
       <<"fiscal_period_lt", "None">>, <<"fiscal_period_lte", "None">>,
       <<"limit", "None">>, <<"sort", "None">>, <<"params", "None">>>>,
   client |-> <<"polygon_client">>,
   method |-> "list_benzinga_guidance",
   kwargs |->
     <<<<"date", "date">>, <<"date_any_of", "date_any_of">>,
       <<"date_gt", "date_gt">>, <<"date_gte", "date_gte">>,
       <<"date_lt", "date_lt">>, <<"date_lte", "date_lte">>,
       <<"ticker", "ticker">>, <<"ticker_any_of", "ticker_any_of">>,
       <<"ticker_gt", "ticker_gt">>, <<"ticker_gte", "ticker_gte">>,
       <<"ticker_lt", "ticker_lt">>, <<"ticker_lte", "ticker_lte">>,
       <<"positioning", "positioning">>,
       <<"positioning_any_of", "positioning_any_of">>,
       <<"positioning_gt", "positioning_gt">>,
       <<"positioning_gte", "positioning_gte">>,
       <<"positioning_lt", "positioning_lt">>,
       <<"positioning_lte", "positioning_lte">>,
       <<"importance", "importance">>,
       <<"importance_any_of", "importance_any_of">>,
       <<"importance_gt", "importance_gt">>,
       <<"importance_gte", "importance_gte">>,
       <<"importance_lt", "importance_lt">>,
       <<"importance_lte", "importance_lte">>,
       <<"last_updated", "last_updated">>,
       <<"last_updated_any_of", "last_updated_any_of">>,
       <<"last_updated_gt", "last_updated_gt">>,
       <<"last_updated_gte", "last_updated_gte">>,
       <<"last_updated_lt", "last_updated_lt">>,
       <<"last_updated_lte", "last_updated_lte">>,
       <<"fiscal_year", "fiscal_year">>,
       <<"fiscal_year_any_of", "fiscal_year_any_of">>,
       <<"fiscal_year_gt", "fiscal_year_gt">>,
       <<"fiscal_year_gte", "fiscal_year_gte">>,
       <<"fiscal_year_lt", "fiscal_year_lt">>,
       <<"fiscal_year_lte", "fiscal_year_lte">>,
       <<"fiscal_period", "fiscal_period">>,
       <<"fiscal_period_any_of", "fiscal_period_any_of">>,
       <<"fiscal_period_gt", "fiscal_period_gt">>,
       <<"fiscal_period_gte", "fiscal_period_gte">>,
       <<"fiscal_period_lt", "fiscal_period_lt">>,
       <<"fiscal_period_lte", "fiscal_period_lte">>, <<"limit", "limit">>,
       <<"sort", "sort">>, <<"params", "params">>>>,
   raw |-> "True"]

list_benzinga_news ==
  [name |-> "list_benzinga_news",
   params |->
     <<<<"published", "None">>, <<"published_any_of", "None">>,
       <<"published_gt", "None">>, <<"published_gte", "None">>,
       <<"published_lt", "None">>, <<"published_lte", "None">>,
       <<"last_updated", "None">>, <<"last_updated_any_of", "None">>,
       <<"last_updated_gt", "None">>, <<"last_updated_gte", "None">>,
       <<"last_updated_lt", "None">>, <<"last_updated_lte", "None">>,
       <<"tickers", "None">>, <<"tickers_all_of", "None">>,
       <<"tickers_any_of", "None">>, <<"channels", "None">>,
       <<"channels_all_of", "None">>, <<"channels_any_of", "None">>,
       <<"tags", "None">>, <<"tags_all_of", "None">>,
       <<"tags_any_of", "None">>, <<"author", "None">>,
       <<"author_any_of", "None">>, <<"author_gt", "None">>,
       <<"author_gte", "None">>, <<"author_lt", "None">>,
       <<"author_lte", "None">>, <<"limit", "None">>, <<"sort", "None">>,
       <<"params", "None">>>>,
   client |-> <<"polygon_client">>,
   method |-> "list_benzinga_news",
   kwargs |->
     <<<<"published", "published">>,
       <<"published_any_of", "published_any_of">>,
       <<"published_gt", "published_gt">>,
       <<"published_gte", "published_gte">>,
       <<"published_lt", "published_lt">>,
       <<"published_lte", "published_lte">>,
       <<"last_updated", "last_updated">>,
       <<"last_updated_any_of", "last_updated_any_of">>,
       <<"last_updated_gt", "last_updated_gt">>,
       <<"last_updated_gte", "last_updated_gte">>,
       <<"last_updated_lt", "last_updated_lt">>,
       <<"last_updated_lte", "last_updated_lte">>, <<"tickers", "tickers">>,
       <<"tickers_all_of", "tickers_all_of">>,
       <<"tickers_any_of", "tickers_any_of">>, <<"channels", "channels">>,
       <<"channels_all_of", "channels_all_of">>,
       <<"channels_any_of", "channels_any_of">>, <<"tags", "tags">>,
       <<"tags_all_of", "tags_all_of">>, <<"tags_any_of", "tags_any_of">>,
       <<"author", "author">>, <<"author_any_of", "author_any_of">>,
       <<"author_gt", "author_gt">>, <<"author_gte", "author_gte">>,
       <<"author_lt", "author_lt">>, <<"author_lte", "author_lte">>,
       <<"limit", "limit">>, <<"sort", "sort">>, <<"params", "params">>>>,
   raw |-> "True"]

list_benzinga_ratings ==
  [name |-> "list_benzinga_ratings",
   params |->
     <<<<"date", "None">>, <<"date_any_of", "None">>, <<"date_gt", "None">>,
       <<"date_gte", "None">>, <<"date_lt", "None">>, <<"date_lte", "None">>,
       <<"ticker", "None">>, <<"ticker_any_of", "None">>,
       <<"ticker_gt", "None">>, <<"ticker_gte", "None">>,
       <<"ticker_lt", "None">>, <<"ticker_lte", "None">>,
       <<"importance", "None">>, <<"importance_any_of", "None">>,
       <<"importance_gt", "None">>, <<"importance_gte", "None">>,
       <<"importance_lt", "None">>, <<"importance_lte", "None">>,
       <<"last_updated", "None">>, <<"last_updated_any_of", "None">>,
       <<"last_updated_gt", "None">>, <<"last_updated_gte", "None">>,
       <<"last_updated_lt", "None">>, <<"last_updated_lte", "None">>,
       <<"rating_action", "None">>, <<"rating_action_any_of", "None">>,
       <<"rating_action_gt", "None">>, <<"rating_action_gte", "None">>,
       <<"rating_action_lt", "None">>, <<"rating_action_lte", "None">>,
       <<"price_target_action", "None">>,
       <<"price_target_action_any_of", "None">>,
       <<"price_target_action_gt", "None">>,
       <<"price_target_action_gte", "None">>,
       <<"price_target_action_lt", "None">>,
       <<"price_target_action_lte", "None">>, <<"benzinga_id", "None">>,
       <<"benzinga_id_any_of", "None">>, <<"benzinga_id_gt", "None">>,
       <<"benzinga_id_gte", "None">>, <<"benzinga_id_lt", "None">>,
       <<"benzinga_id_lte", "None">>, <<"benzinga_analyst_id", "None">>,
       <<"benzinga_analyst_id_any_of", "None">>,
       <<"benzinga_analyst_id_gt", "None">>,
       <<"benzinga_analyst_id_gte", "None">>,
       <<"benzinga_analyst_id_lt", "None">>,
       <<"benzinga_analyst_id_lte", "None">>, <<"benzinga_firm_id", "None">>,
       <<"benzinga_firm_id_any_of", "None">>,
       <<"benzinga_firm_id_gt", "None">>, <<"benzinga_firm_id_gte", "None">>,
       <<"benzinga_firm_id_lt", "None">>, <<"benzinga_firm_id_lte", "None">>,
       <<"limit", "None">>, <<"sort", "None">>, <<"params", "None">>>>,
   client |-> <<"polygon_client">>,
   method |-> "list_benzinga_ratings",
   kwargs |->
     <<<<"date", "date">>, <<"date_any_of", "date_any_of">>,
       <<"date_gt", "date_gt">>, <<"date_gte", "date_gte">>,
       <<"date_lt", "date_lt">>, <<"date_lte", "date_lte">>,
       <<"ticker", "ticker">>, <<"ticker_any_of", "ticker_any_of">>,
       <<"ticker_gt", "ticker_gt">>, <<"ticker_gte", "ticker_gte">>,
       <<"ticker_lt", "ticker_lt">>, <<"ticker_lte", "ticker_lte">>,
       <<"importance", "importance">>,
       <<"importance_any_of", "importance_any_of">>,
       <<"importance_gt", "importance_gt">>,
       <<"importance_gte", "importance_gte">>,
       <<"importance_lt", "importance_lt">>,
       <<"importance_lte", "importance_lte">>,
       <<"last_updated", "last_updated">>,
       <<"last_updated_any_of", "last_updated_any_of">>,
       <<"last_updated_gt", "last_updated_gt">>,
       <<"last_updated_gte", "last_updated_gte">>,
       <<"last_updated_lt", "last_updated_lt">>,
       <<"last_updated_lte", "last_updated_lte">>,
       <<"rating_action", "rating_action">>,
       <<"rating_action_any_of", "rating_action_any_of">>,
       <<"rating_action_gt", "rating_action_gt">>,
       <<"rating_action_gte", "rating_action_gte">>,
       <<"rating_action_lt", "rating_action_lt">>,
       <<"rating_action_lte", "rating_action_lte">>,
       <<"price_target_action", "price_target_action">>,
       <<"price_target_action_any_of", "price_target_action_any_of">>,
       <<"price_target_action_gt", "price_target_action_gt">>,
       <<"price_target_action_gte", "price_target_action_gte">>,
       <<"price_target_action_lt", "price_target_action_lt">>,
       <<"price_target_action_lte", "price_target_action_lte">>,
       <<"benzinga_id", "benzinga_id">>,
       <<"benzinga_id_any_of", "benzinga_id_any_of">>,
       <<"benzinga_id_gt", "benzinga_id_gt">>,
       <<"benzinga_id_gte", "benzinga_id_gte">>,
       <<"benzinga_id_lt", "benzinga_id_lt">>,
       <<"benzinga_id_lte", "benzinga_id_lte">>,
       <<"benzinga_analyst_id", "benzinga_analyst_id">>,
       <<"benzinga_analyst_id_any_of", "benzinga_analyst_id_any_of">>,
       <<"benzinga_analyst_id_gt", "benzinga_analyst_id_gt">>,
       <<"benzinga_analyst_id_gte", "benzinga_analyst_id_gte">>,
       <<"benzinga_analyst_id_lt", "benzinga_analyst_id_lt">>,
       <<"benzinga_analyst_id_lte", "benzinga_analyst_id_lte">>,
       <<"benzinga_firm_id", "benzinga_firm_id">>,
       <<"benzinga_firm_id_any_of", "benzinga_firm_id_any_of">>,
       <<"benzinga_firm_id_gt", "benzinga_firm_id_gt">>,
       <<"benzinga_firm_id_gte", "benzinga_firm_id_gte">>,
       <<"benzinga_firm_id_lt", "benzinga_firm_id_lt">>,
       <<"benzinga_firm_id_lte", "benzinga_firm_id_lte">>,
       <<"limit", "limit">>, <<"sort", "sort">>, <<"params", "params">>>>,
   raw |-> "True"]

list_futures_aggregates ==
  [name |-> "list_futures_aggregates",
   params |->
     <<<<"ticker", NoDefault>>, <<"resolution", NoDefault>>,
       <<"window_start", "None">>, <<"window_start_lt", "None">>,
       <<"window_start_lte", "None">>, <<"window_start_gt", "None">>,
       <<"window_start_gte", "None">>, <<"limit", "None">>,
       <<"sort", "None">>, <<"params", "None">>>>,
   client |-> <<"polygon_client">>,
   method |-> "list_futures_aggregates",
   kwargs |->
     <<<<"ticker", "ticker">>, <<"resolution", "resolution">>,
       <<"window_start", "window_start">>,
       <<"window_start_lt", "window_start_lt">>,
       <<"window_start_lte", "window_start_lte">>,
       <<"window_start_gt", "window_start_gt">>,
       <<"window_start_gte", "window_start_gte">>, <<"limit", "limit">>,
       <<"sort", "sort">>, <<"params", "params">>>>,
   raw |-> "True"]

list_futures_contracts ==
  [name |-> "list_futures_contracts",
   params |->
     <<<<"product_code", "None">>, <<"first_trade_date", "None">>,
       <<"last_trade_date", "None">>, <<"as_of", "None">>,
       <<"active", "None">>, <<"type", "None">>, <<"limit", "None">>,
       <<"sort", "None">>, <<"params", "None">>>>,
   client |-> <<"polygon_client">>,
   method |-> "list_futures_contracts",
   kwargs |->
     <<<<"product_code", "product_code">>,
       <<"first_trade_date", "first_trade_date">>,
       <<"last_trade_date", "last_trade_date">>, <<"as_of", "as_of">>,
       <<"active", "active">>, <<"type", "type">>, <<"limit", "limit">>,
       <<"sort", "sort">>, <<"params", "params">>>>,
   raw |-> "True"]

get_futures_contract_details ==
  [name |-> "get_futures_contract_details",
   params |->
     <<<<"ticker", NoDefault>>, <<"as_of", "None">>, <<"params", "None">>>>,
   client |-> <<"polygon_client">>,
   method |-> "get_futures_contract_details",
   kwargs |->
     <<<<"ticker", "ticker">>, <<"as_of", "as_of">>, <<"params", "params">>>>,
   raw |-> "True"]

list_futures_products ==
  [name |-> "list_futures_products",
   params |->
     <<<<"name", "None">>, <<"name_search", "None">>, <<"as_of", "None">>,
       <<"trading_venue", "None">>, <<"sector", "None">>,
       <<"sub_sector", "None">>, <<"asset_class", "None">>,
       <<"asset_sub_class", "None">>, <<"type", "None">>,
       <<"limit", "None">>, <<"sort", "None">>, <<"params", "None">>>>,
   client |-> <<"polygon_client">>,
   method |-> "list_futures_products",
   kwargs |->
     <<<<"name", "name">>, <<"name_search", "name_search">>,
       <<"as_of", "as_of">>, <<"trading_venue", "trading_venue">>,
       <<"sector", "sector">>, <<"sub_sector", "sub_sector">>,
       <<"asset_class", "asset_class">>,
       <<"asset_sub_class", "asset_sub_class">>, <<"type", "type">>,
       <<"limit", "limit">>, <<"sort", "sort">>, <<"params", "params">>>>,
   raw |-> "True"]

get_futures_product_details ==
  [name |-> "get_futures_product_details",
   params |->
     <<<<"product_code", NoDefault>>, <<"type", "None">>,
       <<"as_of", "None">>, <<"params", "None">>>>,
   client |-> <<"polygon_client">>,
   method |-> "get_futures_product_details",
   kwargs |->
     <<<<"product_code", "product_code">>, <<"type", "type">>,
       <<"as_of", "as_of">>, <<"params", "params">>>>,
   raw |-> "True"]

list_futures_quotes ==
  [name |-> "list_futures_quotes",
   params |->
     <<<<"ticker", NoDefault>>, <<"timestamp", "None">>,
       <<"timestamp_lt", "None">>, <<"timestamp_lte", "None">>,
       <<"timestamp_gt", "None">>, <<"timestamp_gte", "None">>,
       <<"session_end_date", "None">>, <<"session_end_date_lt", "None">>,
       <<"session_end_date_lte", "None">>, <<"session_end_date_gt", "None">>,
       <<"session_end_date_gte", "None">>, <<"limit", "None">>,
       <<"sort", "None">>, <<"params", "None">>>>,
   client |-> <<"polygon_client">>,
   method |-> "list_futures_quotes",
   kwargs |->
     <<<<"ticker", "ticker">>, <<"timestamp", "timestamp">>,
       <<"timestamp_lt", "timestamp_lt">>,
       <<"timestamp_lte", "timestamp_lte">>,
       <<"timestamp_gt", "timestamp_gt">>,
       <<"timestamp_gte", "timestamp_gte">>,
       <<"session_end_date", "session_end_date">>,
       <<"session_end_date_lt", "session_end_date_lt">>,
       <<"session_end_date_lte", "session_end_date_lte">>,
       <<"session_end_date_gt", "session_end_date_gt">>,
       <<"session_end_date_gte", "session_end_date_gte">>,
       <<"limit", "limit">>, <<"sort", "sort">>, <<"params", "params">>>>,
   raw |-> "True"]

list_futures_trades ==
  [name |-> "list_futures_trades",
   params |->
     <<<<"ticker", NoDefault>>, <<"timestamp", "None">>,
       <<"timestamp_lt", "None">>, <<"timestamp_lte", "None">>,
       <<"timestamp_gt", "None">>, <<"timestamp_gte", "None">>,
       <<"session_end_date", "None">>, <<"session_end_date_lt", "None">>,
       <<"session_end_date_lte", "None">>, <<"session_end_date_gt", "None">>,
       <<"session_end_date_gte", "None">>, <<"limit", "None">>,
       <<"sort", "None">>, <<"params", "None">>>>,
   client |-> <<"polygon_client">>,
   method |-> "list_futures_trades",
   kwargs |->
     <<<<"ticker", "ticker">>, <<"timestamp", "timestamp">>,
       <<"timestamp_lt", "timestamp_lt">>,
       <<"timestamp_lte", "timestamp_lte">>,
       <<"timestamp_gt", "timestamp_gt">>,
       <<"timestamp_gte", "timestamp_gte">>,
       <<"session_end_date", "session_end_date">>,
       <<"session_end_date_lt", "session_end_date_lt">>,
       <<"session_end_date_lte", "session_end_date_lte">>,
       <<"session_end_date_gt", "session_end_date_gt">>,
       <<"session_end_date_gte", "session_end_date_gte">>,
       <<"limit", "limit">>, <<"sort", "sort">>, <<"params", "params">>>>,
   raw |-> "True"]

list_futures_schedules ==
  [name |-> "list_futures_schedules",
   params |->
     <<<<"session_end_date", "None">>, <<"trading_venue", "None">>,
       <<"limit", "None">>, <<"sort", "None">>, <<"params", "None">>>>,
   client |-> <<"polygon_client">>,
   method |-> "list_futures_schedules",
   kwargs |->
     <<<<"session_end_date", "session_end_date">>,
       <<"trading_venue", "trading_venue">>, <<"limit", "limit">>,
       <<"sort", "sort">>, <<"params", "params">>>>,
   raw |-> "True"]

list_futures_schedules_by_product_code ==
  [name |-> "list_futures_schedules_by_product_code",
   params |->
     <<<<"product_code", NoDefault>>, <<"session_end_date", "None">>,
       <<"session_end_date_lt", "None">>, <<"session_end_date_lte", "None">>,
       <<"session_end_date_gt", "None">>, <<"session_end_date_gte", "None">>,
       <<"limit", "None">>, <<"sort", "None">>, <<"params", "None">>>>,
   client |-> <<"polygon_client">>,
   method |-> "list_futures_schedules_by_product_code",
   kwargs |->
     <<<<"product_code", "product_code">>,
       <<"session_end_date", "session_end_date">>,
       <<"session_end_date_lt", "session_end_date_lt">>,
       <<"session_end_date_lte", "session_end_date_lte">>,
       <<"session_end_date_gt", "session_end_date_gt">>,
       <<"session_end_date_gte", "session_end_date_gte">>,
       <<"limit", "limit">>, <<"sort", "sort">>, <<"params", "params">>>>,
   raw |-> "True"]

list_futures_market_statuses ==
  [name |-> "list_futures_market_statuses",
   params |->
     <<<<"product_code_any_of", "None">>, <<"product_code", "None">>,
       <<"limit", "None">>, <<"sort", "None">>, <<"params", "None">>>>,
   client |-> <<"polygon_client">>,
   method |-> "list_futures_market_statuses",
   kwargs |->
     <<<<"product_code_any_of", "product_code_any_of">>,
       <<"product_code", "product_code">>, <<"limit", "limit">>,
       <<"sort", "sort">>, <<"params", "params">>>>,
   raw |-> "True"]

get_futures_snapshot ==
  [name |-> "get_futures_snapshot",
   params |->
     <<<<"ticker", "None">>, <<"ticker_any_of", "None">>,
       <<"ticker_gt", "None">>, <<"ticker_gte", "None">>,
       <<"ticker_lt", "None">>, <<"ticker_lte", "None">>,
       <<"product_code", "None">>, <<"product_code_any_of", "None">>,
       <<"product_code_gt", "None">>, <<"product_code_gte", "None">>,
       <<"product_code_lt", "None">>, <<"product_code_lte", "None">>,
       <<"limit", "None">>, <<"sort", "None">>, <<"params", "None">>>>,
   client |-> <<"polygon_client">>,
   method |-> "get_futures_snapshot",
   kwargs |->
     <<<<"ticker", "ticker">>, <<"ticker_any_of", "ticker_any_of">>,
       <<"ticker_gt", "ticker_gt">>, <<"ticker_gte", "ticker_gte">>,
       <<"ticker_lt", "ticker_lt">>, <<"ticker_lte", "ticker_lte">>,
       <<"product_code", "product_code">>,
       <<"product_code_any_of", "product_code_any_of">>,
       <<"product_code_gt", "product_code_gt">>,
       <<"product_code_gte", "product_code_gte">>,
       <<"product_code_lt", "product_code_lt">>,
       <<"product_code_lte", "product_code_lte">>, <<"limit", "limit">>,
       <<"sort", "sort">>, <<"params", "params">>>>,
   raw |-> "True"]

\* the decorated definitions of server.py, top to bottom
Tools ==
  <<get_aggs, list_aggs, get_grouped_daily_aggs, get_daily_open_close_agg,
    get_previous_close_agg, list_trades, get_last_trade,
    get_last_crypto_trade, list_quotes, get_last_quote, get_last_forex_quote,
    get_real_time_currency_conversion, list_universal_snapshots,
    get_snapshot_all, get_snapshot_direction, get_snapshot_ticker,
    get_snapshot_option, get_snapshot_crypto_book, get_market_holidays,
    get_market_status, list_tickers, get_ticker_details, list_ticker_news,
    get_ticker_types, list_splits, list_dividends, list_conditions,
    get_exchanges, list_stock_financials, list_ipos, list_short_interest,
    list_short_volume, list_treasury_yields, list_inflation,
    list_benzinga_analyst_insights, list_benzinga_analysts,
    list_benzinga_consensus_ratings, list_benzinga_earnings,
    list_benzinga_firms, list_benzinga_guidance, list_benzinga_news,
    list_benzinga_ratings, list_futures_aggregates, list_futures_contracts,
    get_futures_contract_details, list_futures_products,
    get_futures_product_details, list_futures_quotes, list_futures_trades,
    list_futures_schedules, list_futures_schedules_by_product_code,
    list_futures_market_statuses, get_futures_snapshot>>

(***************************************************************************)
(* Calling an adapter: Python binds the keyword arguments to the           *)
(* parameters of the signature before the body (and its try) is entered.   *)
(***************************************************************************)
ParamNames(tool) == {tool.params[i][1] : i \in 1..Len(tool.params)}

Required(tool) ==
  {tool.params[i][1] : i \in {k \in 1..Len(tool.params) :
                                tool.params[k][2] = NoDefault}}

Optional(tool) == ParamNames(tool) \ Required(tool)

\* variant: a page size of the adapter's own stands in for an absent limit
DefaultOf_pageSize(tool, p) ==
  IF p = "limit" THEN "10"
  ELSE tool.params[CHOOSE i \in 1..Len(tool.params) :
                     tool.params[i][1] = p][2]

DefaultOf(tool, p) ==
  tool.params[CHOOSE i \in 1..Len(tool.params) : tool.params[i][1] = p][2]

\* the names of the required parameters, as text
ParamText ==
  "ticker" :> <<116, 105, 99, 107, 101, 114>>
  @@ "multiplier" :> <<109, 117, 108, 116, 105, 112, 108, 105, 101, 114>>
  @@ "timespan" :> <<116, 105, 109, 101, 115, 112, 97, 110>>
  @@ "from_" :> <<102, 114, 111, 109, 95>>
  @@ "to" :> <<116, 111>>
  @@ "date" :> <<100, 97, 116, 101>>
  @@ "type" :> <<116, 121, 112, 101>>
  @@ "market_type" :> <<109, 97, 114, 107, 101, 116, 95, 116, 121, 112, 101>>
  @@ "direction" :> <<100, 105, 114, 101, 99, 116, 105, 111, 110>>
  @@ "underlying_asset" :> <<117, 110, 100, 101, 114, 108, 121, 105, 110, 103, 95, 97, 115, 115, 101, 116>>
  @@ "option_contract" :> <<111, 112, 116, 105, 111, 110, 95, 99, 111, 110, 116, 114, 97, 99, 116>>
  @@ "resolution" :> <<114, 101, 115, 111, 108, 117, 116, 105, 111, 110>>
  @@ "product_code" :> <<112, 114, 111, 100, 117, 99, 116, 95, 99, 111, 100, 101>>

\* "missing required positional arguments: "
T_MissingArguments ==
  <<109, 105, 115, 115, 105, 110, 103, 32, 114, 101, 113, 117, 105, 114,
    101, 100, 32, 112, 111, 115, 105, 116, 105, 111, 110, 97, 108, 32, 97,
    114, 103, 117, 109, 101, 110, 116, 115, 58, 32>>

\* "got an unexpected keyword argument"
T_UnexpectedKeyword ==
  <<103, 111, 116, 32, 97, 110, 32, 117, 110, 101, 120, 112, 101, 99, 116,
    101, 100, 32, 107, 101, 121, 119, 111, 114, 100, 32, 97, 114, 103, 117,
    109, 101, 110, 116>>

RECURSIVE JoinNames(_, _)
JoinNames(ps, k) ==
  IF k > Len(ps) THEN <<>>
  ELSE ReprStr(ParamText[ps[k][1]])
       \o (IF k < Len(ps) THEN <<44, 32>> ELSE <<>>) \o JoinNames(ps, k + 1)

\* the local variables of the body, or the TypeError of the call
Bind(tool, args) ==
  LET missing == SelectSeq(tool.params,
                   LAMBDA p : p[2] = NoDefault /\ p[1] \notin DOMAIN args)
  IN
  IF DOMAIN args \ ParamNames(tool) # {}
  THEN [ok |-> FALSE, exc |-> Exc("TypeError", <<T_UnexpectedKeyword>>)]
  ELSE IF missing # <<>>
  THEN [ok |-> FALSE,
        exc |-> Exc("TypeError",
                    <<T_MissingArguments \o JoinNames(missing, 1)>>)]
  ELSE [ok |-> TRUE,
        locals |-> [p \in ParamNames(tool) |->
                      IF p \in DOMAIN args THEN args[p]
                      ELSE DefaultOf(tool, p)]]

(***************************************************************************)
(* The body of an adapter.                                                 *)
(***************************************************************************)
\* results = polygon_client.<method>(k=k, ..., raw=True)
UpstreamCall(tool, locals) ==
  [client |-> tool.client,
   method |-> tool.method,
   kwargs |-> [k \in {tool.kwargs[i][1] : i \in 1..Len(tool.kwargs)}
                     \cup {"raw"} |->
                 IF k = "raw" THEN tool.raw
                 ELSE locals[tool.kwargs[CHOOSE i \in 1..Len(tool.kwargs) :
                                           tool.kwargs[i][1] = k][2]]]]

\* variant: the call is made a second time
CallsIssued_retry(tool, locals) ==
  <<UpstreamCall(tool, locals), UpstreamCall(tool, locals)>>

\* variant: an invocation that follows a returned one makes no call of its
\* own
CallsIssued_cached(tool, locals) ==
  IF pc = "returned" THEN <<>> ELSE <<UpstreamCall(tool, locals)>>

\* the upstream calls one run of the body issues
CallsIssued(tool, locals) == <<UpstreamCall(tool, locals)>>

Return(v) == [kind |-> "return", v |-> v]

Raise(e) == [kind |-> "raise", exc |-> e]

\* "error"
T_error ==
  <<101, 114, 114, 111, 114>>

\* variant: {"error": repr(str(e))}
ErrorPayload_quoted(e) == PyDict(T_error :> PyStr(ReprStr(Str(e))))

\* {"error": str(e)}
ErrorPayload(e) == PyDict(T_error :> PyStr(Str(e)))

\* variant: a bare except, which catches every exception
Handler_catchAll(e) == Return(ErrorPayload(e))

\* variant: except Exception: raise
Handler_reraise(e) == Raise(e)

\* except Exception as e: return {"error": str(e)}
Handler(e) == IF IsException(e) THEN Return(ErrorPayload(e)) ELSE Raise(e)

\* "object has no attribute 'data'"
T_NoData ==
  <<111, 98, 106, 101, 99, 116, 32, 104, 97, 115, 32, 110, 111, 32, 97,
    116, 116, 114, 105, 98, 117, 116, 101, 32, 39, 100, 97, 116, 97, 39>>

\* results.data
GetData(obj) ==
  IF "data" \in DOMAIN obj THEN [ok |-> TRUE, data |-> obj.data]
  ELSE [ok |-> FALSE, exc |-> Exc("AttributeError", <<T_NoData>>)]

\* "results"
T_results ==
  <<114, 101, 115, 117, 108, 116, 115>>

\* variant: return {"results": json.loads(data_str)}
ReturnLoaded_wrapped(j) ==
  IF ~j.ok THEN Handler(j.exc) ELSE Return(PyDict(T_results :> j.v))

\* return json.loads(data_str), j the outcome of json.loads
ReturnLoaded(j) == IF ~j.ok THEN Handler(j.exc) ELSE Return(j.v)

\* data_str = <data>.decode("utf-8"), d the outcome of the decoding
LoadDecoded(d) ==
  IF ~d.ok THEN Handler(d.exc) ELSE ReturnLoaded(JsonLoads(d.text))

\* variant: only the client call is inside the try
DecodeData_outsideTry(g) ==
  IF ~g.ok THEN Raise(g.exc)
  ELSE IF ~Utf8Decode(g.data).ok THEN Raise(Utf8Decode(g.data).exc)
  ELSE IF ~JsonLoads(Utf8Decode(g.data).text).ok
    THEN Raise(JsonLoads(Utf8Decode(g.data).text).exc)
  ELSE Return(JsonLoads(Utf8Decode(g.data).text).v)

\* results.data, g the outcome of the attribute access
DecodeData(g) ==
  IF ~g.ok THEN Handler(g.exc) ELSE LoadDecoded(Utf8Decode(g.data))

\* the try statement from the point where the upstream call has ended with
\* the outcome r (it returned the object r.obj or raised r.exc)
TryBody(r) ==
  IF r.kind = "raise" THEN Handler(r.exc) ELSE DecodeData(GetData(r.obj))

(***************************************************************************)
(* The inputs: what a caller passes to a tool and how the upstream client  *)
(* answers a call.  The client is a collaborator: it may answer any call   *)
(* with an object that holds raw bytes, with an object that holds none, or *)
(* by raising.                                                             *)
(***************************************************************************)
ReqValue == "'AAPL'"

\* a date given as an ISO-8601 string and as an integer
ArgValues == {"'2024-01-02'", "1704153600"}

NoArgs == [p \in {} |-> "None"]

\* no argument; the required ones; the required ones without one of them;
\* the required ones and one optional one (given a value, or None)
ArgSets(tool) ==
  {NoArgs}
  \cup {[p \in Required(tool) |-> v] : v \in ArgValues}
  \cup {[p \in Required(tool) \ {q} |-> ReqValue] : q \in Required(tool)}
  \cup {[p \in Required(tool) \cup {o} |-> IF p = o THEN w ELSE ReqValue] :
          o \in Optional(tool), w \in ArgValues \cup {"None"}}

\* b'{"status":"OK","close":185.64}'
B_Scenario ==
  <<123, 34, 115, 116, 97, 116, 117, 115, 34, 58, 34, 79, 75, 34, 44, 34,
    99, 108, 111, 115, 101, 34, 58, 49, 56, 53, 46, 54, 52, 125>>

\* b'[1, 2]'
B_Array ==
  <<91, 49, 44, 32, 50, 93>>

\* b'7'
B_Scalar ==
  <<55>>

\* b'"\xc3\xa9"'
B_String ==
  <<34, 195, 169, 34>>

\* b'null'
B_Null ==
  <<110, 117, 108, 108>>

\* b'{"error":"x"}'
B_ErrorObject ==
  <<123, 34, 101, 114, 114, 111, 114, 34, 58, 34, 120, 34, 125>>

\* b'{"a":1,"a":2}'
B_RepeatedKey ==
  <<123, 34, 97, 34, 58, 49, 44, 34, 97, 34, 58, 50, 125>>

B_Empty == <<>>  \* b''

\* b'<html>'
B_Html ==
  <<60, 104, 116, 109, 108, 62>>

\* b'{"status":'
B_Truncated ==
  <<123, 34, 115, 116, 97, 116, 117, 115, 34, 58>>

B_BadUtf8 == <<123, 34, 255, 34, 125>>  \* b'{"\xff"}'

B_Bom == <<239, 187, 191, 123, 125>>  \* b'\xef\xbb\xbf{}'

RawBodies ==
  {B_Scenario, B_Array, B_Scalar, B_String, B_Null, B_ErrorObject,
   B_RepeatedKey, B_Empty, B_Html, B_Truncated, B_BadUtf8, B_Bom}

\* "timeout"
T_timeout ==
  <<116, 105, 109, 101, 111, 117, 116>>

\* "{"status":"ERROR","error":"Unknown API Key"}"
T_UnknownKey ==
  <<123, 34, 115, 116, 97, 116, 117, 115, 34, 58, 34, 69, 82, 82, 79, 82,
    34, 44, 34, 101, 114, 114, 111, 114, 34, 58, 34, 85, 110, 107, 110,
    111, 119, 110, 32, 65, 80, 73, 32, 75, 101, 121, 34, 125>>

\* "bad"
T_bad ==
  <<98, 97, 100>>

\* "request"
T_request ==
  <<114, 101, 113, 117, 101, 115, 116>>

\* "1"
T_1 ==
  <<49>>

UpstreamErrors ==
  {Exc("ConnectionError", <<T_timeout>>),
   Exc("TimeoutError", <<>>),
   Exc("Exception", <<>>),
   Exc("Exception", <<T_bad, T_request>>),
   Exc("KeyError", <<ParamText["ticker"]>>),
   Exc("TypeError", <<T_UnexpectedKeyword>>),
   Exc("AuthError", <<T_UnknownKey>>),
   Exc("BadResponse", <<T_UnknownKey>>),
   Exc("KeyboardInterrupt", <<>>),
   Exc("SystemExit", <<T_1>>)}

UpstreamOutcomes ==
  {[kind |-> "return", obj |-> [cls |-> "HTTPResponse", data |-> b]] :
     b \in RawBodies}
  \cup {[kind |-> "return", obj |-> [cls |-> "NoneType"]]}
  \cup {[kind |-> "raise", exc |-> e] : e \in UpstreamErrors}

(***************************************************************************)
(* The environment of the process and the startup.                         *)
(***************************************************************************)
EnvNames == {"POLYGON_API_KEY", "MCP_TRANSPORT"}

\* the transports run() is declared to take
Transports == {"stdio", "sse", "streamable-http"}

\* values the variables are given: none, an empty one, the declared
\* transports and another one; an empty key and a key
EnvValues(name) ==
  IF name = "MCP_TRANSPORT" THEN Transports \cup {"", "http"}
  ELSE {"", "pk_live"}

Environments ==
  {e \in UNION {[K -> UNION {EnvValues(n) : n \in EnvNames}] :
                  K \in SUBSET EnvNames} :
     \A n \in DOMAIN e : e[n] \in EnvValues(n)}

\* os.environ.get(name, default)
EnvGet(e, name, default) == IF name \in DOMAIN e THEN e[name] ELSE default

\* variant: os.environ.get("MCP_TRANSPORT", "stdio"), the default only for
\* a variable that is not set
McpTransport_getDefault(e) == EnvGet(e, "MCP_TRANSPORT", "stdio")

\* variant: a value that is not a declared transport is replaced by
\* "stdio"
McpTransport_validated(e) ==
  IF EnvGet(e, "MCP_TRANSPORT", "") \in Transports THEN e["MCP_TRANSPORT"]
  ELSE "stdio"

\* os.environ.get("MCP_TRANSPORT") or "stdio": None and "" are both false
McpTransport(e) ==
  IF EnvGet(e, "MCP_TRANSPORT", "") = "" THEN "stdio"
  ELSE e["MCP_TRANSPORT"]

WarningLine == "Warning: POLYGON_API_KEY environment variable not set."

StartingLine == "Starting Polygon MCP server with API key configured."

\* version("mcp_polygon"): the version of the installed package, or none
\* (PackageNotFoundError)
PackageVersions == {<<>>, <<"0.4.0">>}

VersionNumber(pkg) ==
  <<"MCP-Polygon", IF pkg = <<>> THEN "unknown" ELSE pkg[1]>>

\* RESTClient(POLYGON_API_KEY) and the User-Agent header extended by the
\* version number
ClientConfig(e, pkg) ==
  [api_key |-> EnvGet(e, "POLYGON_API_KEY", ""),
   user_agent |-> <<"polygon-api-client">> \o VersionNumber(pkg)]

\* the key is set and the transport is not
ConfiguredEnv == ("POLYGON_API_KEY" :> "pk_live")

(***************************************************************************)
(* The initial state and the steps.                                        *)
(***************************************************************************)
Nil == [nil |-> TRUE]

\* the state when the import of server.py has created the client and the
\* registry, in the environment e with the package metadata pkg
InitWith(e, pkg) ==
  /\ env = e
  /\ stdout = IF EnvGet(e, "POLYGON_API_KEY", "") = "" THEN <<WarningLine>>
              ELSE <<>>
  /\ config = ClientConfig(e, pkg)
  /\ runs = <<>>
  /\ phase = "uninitialized"
  /\ registry = <<>>
  /\ nRegistered = 0
  /\ pending = <<>>
  /\ pc = "idle"
  /\ inv = Nil
  /\ frame = Nil
  /\ calls = <<>>
  /\ resp = Nil
  /\ out = Nil
  /\ earlier = Nil
  /\ nInvoked = 0
  /\ nCalls = 0
  /\ app = Nil

Init == InitWith(ConfiguredEnv, <<"0.4.0">>)

\* variant: the registry counts as built after its first registration
RegisterTool_first ==
  /\ phase = "uninitialized"
  /\ nRegistered < Len(Tools)
  /\ registry' = (Tools[nRegistered + 1].name :> (nRegistered + 1)) @@ registry
  /\ nRegistered' = nRegistered + 1
  /\ phase' = "registered"
  /\ UNCHANGED <<app, env, stdout, config, runs, pending, pc, inv, frame, calls,
                 resp, out, earlier, nInvoked, nCalls>>

\* @poly_mcp.tool() on the next definition of server.py: the function is
\* registered under its own name; a name already present is replaced
RegisterTool ==
  /\ phase = "uninitialized"
  /\ nRegistered < Len(Tools)
  /\ registry' = (Tools[nRegistered + 1].name :> (nRegistered + 1)) @@ registry
  /\ nRegistered' = nRegistered + 1
  /\ phase' = IF nRegistered + 1 = Len(Tools) THEN "registered" ELSE phase
  /\ UNCHANGED <<app, env, stdout, config, runs, pending, pc, inv, frame, calls,
                 resp, out, earlier, nInvoked, nCalls>>

\* run(transport): poly_mcp.run(transport); the registry serves on a
\* transport it knows, and serves or raises on another one
Run(t) ==
  /\ runs' = Append(runs, t)
  /\ \/ phase' = "serving"
     \/ t \notin Transports /\ phase' = phase

\* variant: start_server() gives up without an API key
StartServer_failFast ==
  /\ phase = "registered"
  /\ runs = <<>>
  /\ EnvGet(env, "POLYGON_API_KEY", "") # ""
  /\ stdout' = Append(stdout, StartingLine)
  /\ Run(McpTransport(env))
  /\ UNCHANGED <<app, env, config, registry, nRegistered, pending, pc, inv,
                 frame, calls, resp, out, earlier, nInvoked, nCalls>>

\* start_server() of entrypoint.py, called once server.py is imported
StartServer ==
  /\ phase = "registered"
  /\ runs = <<>>
  /\ stdout' = Append(stdout,
                      IF EnvGet(env, "POLYGON_API_KEY", "") = ""
                      THEN WarningLine ELSE StartingLine)
  /\ Run(McpTransport(env))
  /\ UNCHANGED <<app, env, config, registry, nRegistered, pending, pc, inv,
                 frame, calls, resp, out, earlier, nInvoked, nCalls>>

\* the body of `tool` is entered with the local variables of b, or the
\* call ends with the TypeError of b
Enter(tool, b) ==
  IF b.ok
  THEN /\ pc' = "calling"
       /\ frame' = b.locals
       /\ calls' = CallsIssued(tool, b.locals)
       /\ out' = Nil
       /\ nInvoked' = nInvoked + 1
       /\ nCalls' = nCalls + Len(calls')
  ELSE /\ pc' = "raised"
       /\ frame' = Nil
       /\ calls' = <<>>
       /\ out' = Raise(b.exc)
       /\ UNCHANGED <<nInvoked, nCalls>>

\* the call of the function registered as `name` with the keyword arguments
\* `args`: the arguments are bound, the body enters its try and calls the
\* client
Call(name, args) ==
  /\ name \in DOMAIN registry
  /\ inv' = [tool |-> name, args |-> args]
  /\ resp' = Nil
  /\ Enter(Tools[registry[name]], Bind(Tools[registry[name]], args))

\* the transport invokes a tool while nothing else is in progress
Invoke(name, args) ==
  /\ phase = "serving"
  /\ pc = "idle"
  /\ pending = <<>>
  /\ nInvoked < MaxInvocations
  /\ Call(name, args)
  /\ earlier' = Nil
  /\ UNCHANGED <<app, env, stdout, config, runs, phase, registry, nRegistered,
                 pending>>

\* the result is handed back and the transport invokes a tool next
InvokeNext(name, args) ==
  /\ phase = "serving"
  /\ pc \in {"returned", "raised"}
  /\ pending = <<>>
  /\ resp # Nil
  /\ nInvoked < MaxInvocations
  /\ Call(name, args)
  /\ earlier' = resp
  /\ UNCHANGED <<app, env, stdout, config, runs, phase, registry, nRegistered,
                 pending>>

\* the result is handed back and the transport invokes the same tool again
\* with identical arguments (followed here for the invocations that pass no
\* optional argument)
Reinvoke ==
  /\ pc \in {"returned", "raised"}
  /\ DOMAIN inv.args \subseteq Required(Tools[registry[inv.tool]])
  /\ InvokeNext(inv.tool, inv.args)

\* the transport receives an invocation while others may be in progress: it
\* becomes a task of the event loop
Issue(name, args) ==
  /\ phase = "serving"
  /\ nInvoked + Len(pending) < MaxInvocations
  /\ pending' = Append(pending, [tool |-> name, args |-> args])
  /\ UNCHANGED <<app, env, stdout, config, runs, phase, registry, nRegistered,
                 pc, inv, frame, calls, resp, out, earlier, nInvoked, nCalls>>

\* variant: the arguments of the tasks are kept in one shared slot, which
\* holds those of the task received last
Start_sharedSlot(i) ==
  /\ phase = "serving"
  /\ pc = "idle"
  /\ i \in 1..Len(pending)
  /\ pending[i].tool \in DOMAIN registry
  /\ inv' = pending[i]
  /\ resp' = Nil
  /\ Enter(Tools[registry[pending[i].tool]],
           Bind(Tools[registry[pending[i].tool]],
                pending[Len(pending)].args))
  /\ pending' = SubSeq(pending, 1, i - 1)
                  \o SubSeq(pending, i + 1, Len(pending))
  /\ earlier' = Nil
  /\ UNCHANGED <<app, env, stdout, config, runs, phase, registry, nRegistered>>

\* variant: the body awaits its upstream call, and the event loop starts
\* another task meanwhile
Start_awaiting(i) ==
  /\ phase = "serving"
  /\ pc \in {"idle", "calling"}
  /\ i \in 1..Len(pending)
  /\ Call(pending[i].tool, pending[i].args)
  /\ pending' = SubSeq(pending, 1, i - 1)
                  \o SubSeq(pending, i + 1, Len(pending))
  /\ earlier' = Nil
  /\ UNCHANGED <<app, env, stdout, config, runs, phase, registry, nRegistered>>

\* the event loop starts the i-th task it holds.  The adapters are
\* coroutines whose bodies hold no await: once started, a body runs to its
\* return on the thread of the event loop, its upstream call included, and
\* the loop starts no other task before
Start(i) ==
  /\ phase = "serving"
  /\ pc = "idle"
  /\ i \in 1..Len(pending)
  /\ Call(pending[i].tool, pending[i].args)
  /\ pending' = SubSeq(pending, 1, i - 1)
                  \o SubSeq(pending, i + 1, Len(pending))
  /\ earlier' = Nil
  /\ UNCHANGED <<app, env, stdout, config, runs, phase, registry, nRegistered>>

\* variant: the adapter extends the User-Agent header of the shared client
\* on its way out
Complete_stamps(r) ==
  /\ pc = "calling"
  /\ resp' = r
  /\ out' = TryBody(r)
  /\ pc' = IF out'.kind = "return" THEN "returned" ELSE "raised"
  /\ config' = [config EXCEPT !.user_agent = @ \o VersionNumber(<<>>)]
  /\ UNCHANGED <<app, env, stdout, runs, phase, registry, nRegistered, pending,
                 inv, frame, calls, earlier, nInvoked, nCalls>>

\* variant: a failure of the upstream call is latched, and the invocation
\* that follows ends with it
Complete_latched(r) ==
  /\ pc = "calling"
  /\ resp' = r
  /\ out' = IF earlier # Nil /\ earlier.kind = "raise" THEN TryBody(earlier)
            ELSE TryBody(r)
  /\ pc' = IF out'.kind = "return" THEN "returned" ELSE "raised"
  /\ UNCHANGED <<app, env, stdout, config, runs, phase, registry, nRegistered,
                 pending, inv, frame, calls, earlier, nInvoked, nCalls>>

\* variant: the body loops back to the call when the call raised
Complete_retrying(r) ==
  /\ pc = "calling"
  /\ resp' = r
  /\ out' = IF r.kind = "raise" THEN Nil ELSE TryBody(r)
  /\ pc' = IF r.kind = "raise" THEN "calling"
           ELSE IF out'.kind = "return" THEN "returned" ELSE "raised"
  /\ UNCHANGED <<app, env, stdout, config, runs, phase, registry, nRegistered,
                 pending, inv, frame, calls, earlier, nInvoked, nCalls>>

\* the upstream call ends with the outcome r; the adapter runs to its end
Complete(r) ==
  /\ pc = "calling"
  /\ resp' = r
  /\ out' = TryBody(r)
  /\ pc' = IF out'.kind = "return" THEN "returned" ELSE "raised"
  /\ UNCHANGED <<app, env, stdout, config, runs, phase, registry, nRegistered,
                 pending, inv, frame, calls, earlier, nInvoked, nCalls>>

\* the result is handed back to the transport and not retained
HandBack ==
  /\ pc \in {"returned", "raised"}
  /\ pc' = "idle"
  /\ inv' = Nil
  /\ frame' = Nil
  /\ calls' = <<>>
  /\ resp' = Nil
  /\ out' = Nil
  /\ earlier' = Nil
  /\ UNCHANGED <<app, env, stdout, config, runs, phase, registry, nRegistered,
                 pending, nInvoked, nCalls>>

\* one client that waits for each result before its next invocation
Next ==
  \/ RegisterTool
  \/ StartServer
  \/ \E i \in 1..Len(Tools) : \E args \in ArgSets(Tools[i]) :
       Invoke(Tools[i].name, args)
  \/ Reinvoke
  \/ \E r \in UpstreamOutcomes : Complete(r)
  \/ HandBack

Spec == Init /\ [][Next]_vars

(***************************************************************************)
(* The startup in every environment, followed by invocations of one tool.  *)
(***************************************************************************)
StartInit ==
  \E e \in Environments : \E pkg \in PackageVersions : InitWith(e, pkg)

StartNext ==
  \/ RegisterTool
  \/ StartServer
  \/ \E args \in ArgSets(get_ticker_details) :
       Invoke(get_ticker_details.name, args)
  \/ \E args \in ArgSets(get_ticker_details) :
       InvokeNext(get_ticker_details.name, args)
  \/ \E r \in UpstreamOutcomes : Complete(r)
  \/ HandBack

StartSpec == StartInit /\ [][StartNext]_vars

(***************************************************************************)
(* Clients that invoke tools without waiting for each other's results.     *)
(***************************************************************************)
ConcurrentTools == {list_quotes, get_daily_open_close_agg}

\* no argument, or the required ones
ConcurrentArgSets(tool) == {NoArgs, [p \in Required(tool) |-> ReqValue]}

ConcurrentNext ==
  \/ RegisterTool
  \/ StartServer
  \/ \E tool \in ConcurrentTools : \E args \in ConcurrentArgSets(tool) :
       Issue(tool.name, args)
  \/ \E i \in 1..Len(pending) : Start(i)
  \/ \E r \in UpstreamOutcomes : Complete(r)
  \/ HandBack

ConcurrentSpec == Init /\ [][ConcurrentNext]_vars

(***************************************************************************)
(* Every tool invoked with its required arguments, with an upstream call   *)
(* that ends: a call that is in progress returns or raises in the end.     *)
(***************************************************************************)
TerminationNext ==
  \/ RegisterTool
  \/ StartServer
  \/ \E i \in 1..Len(Tools) :
       Invoke(Tools[i].name, [p \in Required(Tools[i]) |-> ReqValue])
  \/ \E r \in UpstreamOutcomes : Complete(r)
  \/ HandBack

TerminationSpec ==
  /\ Init
  /\ [][TerminationNext]_vars
  /\ WF_vars(\E r \in UpstreamOutcomes : Complete(r))

(***************************************************************************)
(* create_app of http_wrapper.py: the HTTP app made of the registry.  A    *)
(* printed line is the code points of its leading symbol and its text.     *)
(***************************************************************************)
\* "FastMCP instance doesn't have http_app() method"
T_InstanceNoHttpApp ==
  <<70, 97, 115, 116, 77, 67, 80, 32, 105, 110, 115, 116, 97, 110, 99, 101,
    32, 100, 111, 101, 115, 110, 39, 116, 32, 104, 97, 118, 101, 32, 104,
    116, 116, 112, 95, 97, 112, 112, 40, 41, 32, 109, 101, 116, 104, 111,
    100>>

\* "Standalone FastMCP doesn't have http_app() method"
T_StandaloneNoHttpApp ==
  <<83, 116, 97, 110, 100, 97, 108, 111, 110, 101, 32, 70, 97, 115, 116,
    77, 67, 80, 32, 100, 111, 101, 115, 110, 39, 116, 32, 104, 97, 118,
    101, 32, 104, 116, 116, 112, 95, 97, 112, 112, 40, 41, 32, 109, 101,
    116, 104, 111, 100>>

\* "FastMCP 2.3.2+ with http_app() support is required. Error: "
T_HttpAppRequired ==
  <<70, 97, 115, 116, 77, 67, 80, 32, 50, 46, 51, 46, 50, 43, 32, 119, 105,
    116, 104, 32, 104, 116, 116, 112, 95, 97, 112, 112, 40, 41, 32, 115,
    117, 112, 112, 111, 114, 116, 32, 105, 115, 32, 114, 101, 113, 117,
    105, 114, 101, 100, 46, 32, 69, 114, 114, 111, 114, 58, 32>>

\* the installed fastmcp package: the __module__ of the class FastMCP that
\* `from fastmcp import FastMCP` binds, the attributes the class defines,
\* the attributes its instances carry, and what a call of http_app() raises
\* (Nil: nothing)
FastMCPLibraries ==
  [module : {"fastmcp.server.server", "mcp.server.fastmcp"},
   attrs : SUBSET {"http_app"},
   instance : SUBSET {"_app"},
   http_app : {Nil, Exc("TypeError", <<T_UnexpectedKeyword>>),
               Exc("KeyboardInterrupt", <<>>)}]

\* hasattr(obj, name), obj a class or an instance of one
HasAttr(obj, name) ==
  \/ name \in obj.attrs
  \/ "cls" \in DOMAIN obj /\ name \in obj.cls.attrs

\* the class that `from fastmcp import FastMCP` binds in server.py
ServerFastMCP(lib) == [module |-> lib.module, attrs |-> lib.attrs]

\* FastMCP("Polygon", dependencies=["polygon"]) and the tools registered on
\* the instance since
NewFastMCP(cls, lib, tools) ==
  [cls |-> cls, attrs |-> lib.instance, tools |-> tools]

\* variant: the import in create_app binds a newer class than the one
\* server.py was imported with
ImportStandalone_upgraded(lib) ==
  [ok |-> TRUE,
   v |-> [module |-> "fastmcp.server.server", attrs |-> {"http_app"}]]

\* `from fastmcp import FastMCP` in create_app: the module was imported by
\* server.py before, the statement binds the same class again
ImportStandalone(lib) == [ok |-> TRUE, v |-> ServerFastMCP(lib)]

\* server.http_app()
HttpApp(server, lib) ==
  IF lib.http_app = Nil THEN Return([server |-> server])
  ELSE Raise(lib.http_app)

\* the inner try of create_app, entered when poly_mcp has no http_app; imp
\* is the outcome of its import
CreateAppFallback(poly_mcp, lib, imp) ==
  IF poly_mcp.cls.module # "mcp.server.fastmcp"
  THEN [prints |-> <<>>,
        result |-> Raise(Exc("RuntimeError", <<T_InstanceNoHttpApp>>))]
  ELSE
    LET detected ==
      << <<<<9888, 65039>>,
           "  Detected bundled FastMCP, attempting to use standalone version...">> >>
    IN
    IF ~imp.ok
    THEN [prints |-> detected,
          result |-> Raise(Exc("RuntimeError",
                               <<T_HttpAppRequired \o Str(imp.exc)>>))]
    ELSE IF ~HasAttr(imp.v, "http_app")
    THEN [prints |-> detected,
          result |-> Raise(Exc("RuntimeError", <<T_StandaloneNoHttpApp>>))]
    ELSE
      LET available ==
            Append(detected,
                   <<<<9989>>,
                     " Standalone FastMCP with http_app() available">>)
      IN
      IF HasAttr(poly_mcp, "_app")
      THEN [prints |-> available, result |-> Return([server |-> poly_mcp])]
      ELSE [prints |->
              Append(available,
                <<<<9888, 65039>>,
                  "  Creating new FastMCP instance (tools may not be available)">>),
            result |-> HttpApp(NewFastMCP(imp.v, lib, <<>>), lib)]

\* variant: the handler prints the error and returns None
CreateAppHandler_swallow(r) ==
  IF r.result.kind = "raise" /\ IsException(r.result.exc)
  THEN [prints |-> Append(r.prints,
                          <<<<10060>>, " Error creating HTTP app: ",
                            Str(r.result.exc)>>),
        result |-> Return(PyNone)]
  ELSE r

\* except Exception as e: print(...); raise
CreateAppHandler(r) ==
  IF r.result.kind = "raise" /\ IsException(r.result.exc)
  THEN [prints |-> Append(r.prints,
                          <<<<10060>>, " Error creating HTTP app: ",
                            Str(r.result.exc)>>),
        result |-> r.result]
  ELSE r

\* the outer try of create_app, poly_mcp imported from server.py
CreateAppTry(poly_mcp, lib) ==
  IF HasAttr(poly_mcp, "http_app")
  THEN [prints |-> << <<<<9989>>, " Using FastMCP http_app() method">> >>,
        result |-> HttpApp(poly_mcp, lib)]
  ELSE CreateAppFallback(poly_mcp, lib, ImportStandalone(lib))

\* app = create_app(), once the import of server.py has registered the
\* tools; uvicorn serves the app that is returned
CreateApp(lib) ==
  /\ phase = "registered"
  /\ runs = <<>>
  /\ app = Nil
  /\ app' = [lib |-> lib,
             result |-> CreateAppHandler(
                          CreateAppTry(NewFastMCP(ServerFastMCP(lib), lib,
                                                  registry), lib)).result]
  /\ stdout' = stdout \o CreateAppHandler(
                           CreateAppTry(NewFastMCP(ServerFastMCP(lib), lib,
                                                   registry), lib)).prints
  /\ phase' = IF app'.result.kind = "return" THEN "serving" ELSE phase
  /\ UNCHANGED <<env, config, runs, registry, nRegistered, pending, pc, inv,
                 frame, calls, resp, out, earlier, nInvoked, nCalls>>

HttpNext ==
  \/ RegisterTool
  \/ \E lib \in FastMCPLibraries : CreateApp(lib)
  \/ \E args \in ArgSets(get_ticker_details) :
       Invoke(get_ticker_details.name, args)
  \/ \E r \in UpstreamOutcomes : Complete(r)
  \/ HandBack

HttpSpec == Init /\ [][HttpNext]_vars

(***************************************************************************)
(* Properties.                                                             *)
(***************************************************************************)
Done == pc \in {"returned", "raised"}

\* the adapter in progress
CurrentTool == Tools[registry[inv.tool]]

\* a mapping with the one key "error" and a string under it
IsErrorShape(v) ==
  /\ v.t = "dict"
  /\ DOMAIN v.m = {T_error}
  /\ v.m[T_error].t = "str"

\* the upstream call of the invocation has ended by raising
CallRaised == Done /\ resp # Nil /\ resp.kind = "raise"

\* the upstream call of the invocation has ended by returning an object
CallReturned == Done /\ resp # Nil /\ resp.kind = "return"

\* the object the call returned yields no JSON value: it has no data, the
\* data is not UTF-8, or the text is not JSON
DecodeFails(obj) ==
  IF "data" \notin DOMAIN obj THEN TRUE
  ELSE IF ~Utf8Decode(obj.data).ok THEN TRUE
  ELSE ~JsonLoads(Utf8Decode(obj.data).text).ok

Contains(text, sub) == \E i \in 1..Len(text) : StartsWith(text, i, sub)

\* "status"
T_status ==
  <<115, 116, 97, 116, 117, 115>>

\* "OK"
T_OK ==
  <<79, 75>>

\* "close"
T_close ==
  <<99, 108, 111, 115, 101>>

\* {"status": "OK", "close": 185.64}
ScenarioValue ==
  PyDict((T_status :> PyStr(T_OK))
         @@ (T_close :> [t |-> "float", neg |-> FALSE, mant |-> 18564,
                         exp |-> 0 - 2]))

\* C1: whenever the upstream call of an adapter raised an error (an instance
\* of Exception), the invocation returned a mapping {"error": <string>} and
\* raised nothing.
C1_ErrorContained ==
  (CallRaised /\ IsException(resp.exc))
    => (pc = "returned" /\ out.kind = "return" /\ IsErrorShape(out.v))

C1_Witness ==
  /\ pc = "returned"
  /\ inv.tool = "get_futures_snapshot"
  /\ resp # Nil
  /\ resp.kind = "raise"
  /\ resp.exc.cls = "BadResponse"
  /\ IsErrorShape(out.v)

\* C2: whenever the upstream call returned raw bytes that are valid UTF-8
\* JSON, the adapter returned the parsed value itself, be it an object, an
\* array or a scalar; the bytes {"status":"OK","close":185.64} give the
\* mapping with status "OK" and close 185.64.
C2_VerbatimPayload ==
  (CallReturned /\ ~DecodeFails(resp.obj))
    => /\ out = Return(JsonLoads(Utf8Decode(resp.obj.data).text).v)
       /\ resp.obj.data = B_Scenario => out.v = ScenarioValue
       /\ resp.obj.data = B_Array => out.v = PyList(<<PyInt(1), PyInt(2)>>)
       /\ resp.obj.data = B_Scalar => out.v = PyInt(7)

C2_Witness ==
  /\ pc = "returned"
  /\ inv.tool = "get_daily_open_close_agg"
  /\ resp # Nil
  /\ resp.kind = "return"
  /\ "data" \in DOMAIN resp.obj
  /\ resp.obj.data = B_Scenario
  /\ out.v = ScenarioValue

\* C3: every argument supplied to an adapter is passed to the upstream
\* method under the same name and with the same value.
C3_PassThrough ==
  frame # Nil
    => \A p \in DOMAIN inv.args :
         /\ Len(calls) >= 1
         /\ p \in DOMAIN calls[1].kwargs
         /\ calls[1].kwargs[p] = inv.args[p]

\* C4: an invocation whose body ran (it is inside the upstream call, or it
\* ended with a success payload or with an error payload) has issued exactly
\* one upstream call.
C4_ExactlyOneCall ==
  /\ frame # Nil => Len(calls) = 1
  /\ pc \in {"calling", "returned"} => frame # Nil

C4_Witness ==
  /\ pc = "returned"
  /\ inv.tool = "list_trades"
  /\ resp # Nil
  /\ resp.kind = "raise"
  /\ IsErrorShape(out.v)
  /\ Len(calls) = 1

\* C5: after n invocations n upstream calls have been issued, and an
\* invocation that repeats the one before it takes its result from the
\* outcome of its own call.
C5_NoCaching ==
  /\ nCalls = nInvoked
  /\ (Done /\ resp # Nil /\ earlier # Nil) => out = TryBody(resp)

C5_Witness ==
  /\ pc = "returned"
  /\ inv.tool = "get_market_status"
  /\ earlier # Nil
  /\ earlier.kind = "return"
  /\ resp # Nil
  /\ resp.kind = "return"
  /\ resp # earlier
  /\ ~DecodeFails(resp.obj)
  /\ ~DecodeFails(earlier.obj)
  /\ nInvoked = 2
  /\ nCalls = 2

\* C6: whenever the upstream call raised an exception (an instance of
\* Exception) whose string representation is m, the adapter returned exactly
\* {"error": m}; a ConnectionError("timeout") gives {"error": "timeout"}.
C6_MessageVerbatim ==
  (CallRaised /\ IsException(resp.exc))
    => /\ out = Return(PyDict(T_error :> PyStr(Str(resp.exc))))
       /\ resp.exc = Exc("ConnectionError", <<T_timeout>>)
            => out.v.m[T_error].s = T_timeout

C6_Witness ==
  /\ pc = "returned"
  /\ inv.tool = "get_daily_open_close_agg"
  /\ resp = Raise(Exc("ConnectionError", <<T_timeout>>))
  /\ out = Return(PyDict(T_error :> PyStr(T_timeout)))

\* C7: whenever the upstream call returned but the decode or parse step
\* failed, the adapter returned a mapping {"error": <string>} and raised
\* nothing.
C7_DecodeFailureContained ==
  (CallReturned /\ DecodeFails(resp.obj))
    => (pc = "returned" /\ out.kind = "return" /\ IsErrorShape(out.v))

C7_Witness ==
  /\ pc = "returned"
  /\ inv.tool = "get_last_trade"
  /\ resp # Nil
  /\ resp.kind = "return"
  /\ "data" \in DOMAIN resp.obj
  /\ resp.obj.data = B_BadUtf8
  /\ IsErrorShape(out.v)

\* C8: an invocation without arguments of an adapter that has a required
\* parameter ends with a mapping {"error": <message>} whose message names a
\* missing parameter, and does not raise.
C8_NoArgumentsReported ==
  (Done /\ inv.args = NoArgs /\ Required(CurrentTool) # {})
    => /\ pc = "returned"
       /\ out.kind = "return"
       /\ IsErrorShape(out.v)
       /\ \E p \in Required(CurrentTool) :
            Contains(out.v.m[T_error].s, ParamText[p])

\* C9: the message of every error payload an adapter returned for a failure
\* of the call or of the decode or parse step is a non-empty string.
C9_NonEmptyMessage ==
  (pc = "returned" /\ resp # Nil
     /\ (resp.kind = "raise" \/ DecodeFails(resp.obj)))
    => (IsErrorShape(out.v) /\ out.v.m[T_error].s # <<>>)

\* C10: the names registered on poly_mcp are pairwise distinct: there are as
\* many names as registrations, and every registered function is the one
\* found under its name (no registration has replaced an earlier one).
C10_UniqueNames ==
  /\ Cardinality(DOMAIN registry) = nRegistered
  /\ \A i \in 1..nRegistered : registry[Tools[i].name] = i

C10_Witness ==
  /\ phase = "registered"
  /\ nRegistered = Len(Tools)
  /\ "get_futures_snapshot" \in DOMAIN registry
  /\ "get_aggs" \in DOMAIN registry

\* every tool of server.py is registered under its name
AllRegistered ==
  /\ nRegistered = Len(Tools)
  /\ DOMAIN registry = {Tools[i].name : i \in 1..Len(Tools)}

\* an invocation has been received, is in progress or has been run
Dispatched == pending # <<>> \/ pc # "idle" \/ nInvoked > 0

\* C11: the phase only moves from uninitialized to registered and from
\* registered to serving; run() is called at most once, and only when every
\* tool is registered; the server serves only with every tool registered,
\* and an invocation is dispatched only while it serves.
C11_Lifecycle ==
  /\ [](/\ phase \in {"uninitialized", "registered", "serving"}
        /\ Len(runs) <= 1
        /\ runs # <<>> => AllRegistered
        /\ phase = "serving" => (AllRegistered /\ Len(runs) = 1)
        /\ Dispatched => phase = "serving")
  /\ [][phase' # phase
          => \/ phase = "uninitialized" /\ phase' = "registered"
             \/ phase = "registered" /\ phase' = "serving"]_vars

C11_Witness ==
  /\ phase = "serving"
  /\ AllRegistered
  /\ runs = <<"sse">>
  /\ pc = "returned"
  /\ nInvoked = 2

\* reg is the registry the import of server.py builds: the names of the
\* tools, each with its own function
RegistryBuilt(reg) ==
  /\ DOMAIN reg = {Tools[i].name : i \in 1..Len(Tools)}
  /\ \A i \in 1..Len(Tools) : reg[Tools[i].name] = i

\* the configurations the startup can give the client in the environment e
ConfigsBuilt(e) == {ClientConfig(e, pkg) : pkg \in PackageVersions}

\* C12: once an invocation has been dispatched, whether it is in progress,
\* has returned a success or an error payload, or has raised, the tool
\* registry is the one the startup built and the client holds the API key
\* and the User-Agent header the startup gave it.
C12_FrameUnchanged ==
  Dispatched
    => /\ RegistryBuilt(registry)
       /\ config \in ConfigsBuilt(env)
       /\ config.api_key = EnvGet(env, "POLYGON_API_KEY", "")

C12_Witness ==
  /\ pc = "returned"
  /\ inv.tool = "get_market_holidays"
  /\ nInvoked = 2
  /\ resp # Nil
  /\ resp.kind = "raise"
  /\ IsErrorShape(out.v)
  /\ RegistryBuilt(registry)
  /\ config = ClientConfig(env, <<"0.4.0">>)

\* what an invocation of `tool` with the arguments `args` issues and how it
\* ends when it is the only one the server is given and its upstream call
\* ends with r
CallsAlone(tool, b) == IF b.ok THEN CallsIssued(tool, b.locals) ELSE <<>>

EndsAlone(b, r) == IF b.ok THEN TryBody(r) ELSE Raise(b.exc)

\* C13: whatever other invocations have been received, are waiting or have
\* run before, an invocation issues the call its own arguments give and ends
\* as it would alone: with the result of its own arguments and of the
\* outcome of its own upstream call.
C13_Independent ==
  /\ pc # "idle" => calls = CallsAlone(CurrentTool, Bind(CurrentTool, inv.args))
  /\ Done => out = EndsAlone(Bind(CurrentTool, inv.args), resp)

C13_Witness ==
  /\ pc = "returned"
  /\ inv = [tool |-> "list_quotes", args |-> [p \in {"ticker"} |-> ReqValue]]
  /\ Len(pending) = 1
  /\ pending[1] = [tool |-> "list_quotes", args |-> NoArgs]
  /\ resp # Nil
  /\ resp.kind = "return"
  /\ "data" \in DOMAIN resp.obj
  /\ resp.obj.data = B_Scenario
  /\ out = Return(ScenarioValue)

\* C14: while one invocation waits on its upstream call, another invocation
\* the server has received can start.
C14_NoBlocking ==
  (pc = "calling" /\ pending # <<>>)
    => ENABLED (\E i \in 1..Len(pending) : Start(i))

\* the invocation in progress is the next one after an invocation that
\* returned an error payload
AfterFailure ==
  /\ earlier # Nil
  /\ TryBody(earlier).kind = "return"
  /\ IsErrorShape(TryBody(earlier).v)

\* C15: when an invocation has returned an error payload the server still
\* serves, with the registry and the client the startup built, and the
\* invocation that follows issues its call and ends as it would alone.
C15_FailureNotFatal ==
  /\ (pc = "returned" /\ IsErrorShape(out.v))
       => (phase = "serving" /\ RegistryBuilt(registry)
           /\ config \in ConfigsBuilt(env))
  /\ AfterFailure
       => /\ phase = "serving"
          /\ pc # "idle"
               => calls = CallsAlone(CurrentTool, Bind(CurrentTool, inv.args))
          /\ Done => out = EndsAlone(Bind(CurrentTool, inv.args), resp)

C15_Witness ==
  /\ pc = "returned"
  /\ inv.tool = "get_ticker_details"
  /\ earlier = Raise(Exc("ConnectionError", <<T_timeout>>))
  /\ resp # Nil
  /\ resp.kind = "return"
  /\ "data" \in DOMAIN resp.obj
  /\ resp.obj.data = B_Scenario
  /\ out = Return(ScenarioValue)
  /\ nInvoked = 2

\* server.run has been called at most once, and once when the server serves
RunOnce == Len(runs) <= 1 /\ (phase = "serving" => Len(runs) = 1)

\* C16 as stated: server.run is called exactly once, with the value of
\* MCP_TRANSPORT, and with "stdio" when the variable is not set.
C16_TransportFromEnv ==
  /\ RunOnce
  /\ runs # <<>>
       => /\ "MCP_TRANSPORT" \notin DOMAIN env => runs[1] = "stdio"
          /\ "MCP_TRANSPORT" \in DOMAIN env => runs[1] = env["MCP_TRANSPORT"]

\* C16 as amended: server.run is called exactly once, with "stdio" when
\* MCP_TRANSPORT is not set or is empty, and with the value of the variable
\* otherwise.
C16_TransportFromEnvOrDefault ==
  /\ RunOnce
  /\ runs # <<>>
       => /\ "MCP_TRANSPORT" \notin DOMAIN env => runs[1] = "stdio"
          /\ "MCP_TRANSPORT" \in DOMAIN env
               => runs[1] = IF env["MCP_TRANSPORT"] = "" THEN "stdio"
                            ELSE env["MCP_TRANSPORT"]

C16_Witness ==
  /\ phase = "serving"
  /\ "MCP_TRANSPORT" \notin DOMAIN env
  /\ runs = <<"stdio">>
  /\ Len(stdout) >= 1
  /\ stdout[Len(stdout)] = StartingLine

\* the upstream call of the invocation ended with the authentication failure
\* of the upstream service
AuthFailed ==
  /\ CallRaised
  /\ resp.exc.cls \in {"AuthError", "BadResponse"}
  /\ resp.exc.args = <<T_UnknownKey>>

\* C17: when POLYGON_API_KEY is not set, the warning has been printed, the
\* client holds an empty key, start_server() can go on to its call of
\* server.run once the tools are registered and prints the warning before
\* it, and an invocation whose upstream call fails authentication returns
\* {"error": <the message of the failure>}.
C17_StartsWithoutKey ==
  "POLYGON_API_KEY" \notin DOMAIN env
    => /\ WarningLine \in Range(stdout)
       /\ StartingLine \notin Range(stdout)
       /\ config.api_key = ""
       /\ (phase = "registered" /\ runs = <<>>) => ENABLED StartServer
       /\ runs # <<>> => stdout = <<WarningLine, WarningLine>>
       /\ AuthFailed => out = Return(PyDict(T_error :> PyStr(T_UnknownKey)))

C17_Witness ==
  /\ "POLYGON_API_KEY" \notin DOMAIN env
  /\ phase = "serving"
  /\ stdout = <<WarningLine, WarningLine>>
  /\ pc = "returned"
  /\ resp = Raise(Exc("BadResponse", <<T_UnknownKey>>))
  /\ out = Return(PyDict(T_error :> PyStr(T_UnknownKey)))

\* C18: every call of server.run is made with one of the transports stdio,
\* sse, streamable-http.
C18_TransportAmongThree == \A i \in 1..Len(runs) : runs[i] \in Transports

\* the method of the upstream client a tool calls: the object it is reached
\* on and its name
MethodOf(tool) == <<tool.client, tool.method>>

\* C19: every upstream call an invocation issues is a call of the client
\* method that bears the name of the invoked tool, reached on polygon_client
\* or on polygon_client.vx, and no other registered tool calls the method
\* the invoked tool calls.
C19_OneToOne ==
  /\ \A k \in 1..Len(calls) :
       /\ calls[k].method = inv.tool
       /\ calls[k].client \in {<<"polygon_client">>, <<"polygon_client", "vx">>}
  /\ pc # "idle"
       => \A j \in 1..nRegistered :
            j # registry[inv.tool]
              => MethodOf(Tools[j]) # MethodOf(CurrentTool)

C19_Witness ==
  /\ pc = "calling"
  /\ inv.tool = "list_stock_financials"
  /\ Len(calls) = 1
  /\ calls[1].client = <<"polygon_client", "vx">>
  /\ calls[1].method = "list_stock_financials"
  /\ nRegistered = Len(Tools)

\* C20: every upstream call an invocation issues carries the keyword raw
\* with the value True.
C20_RawEverywhere ==
  \A k \in 1..Len(calls) :
    /\ "raw" \in DOMAIN calls[k].kwargs
    /\ calls[k].kwargs["raw"] = "True"

C20_Witness ==
  /\ pc = "calling"
  /\ inv.tool = "get_last_trade"
  /\ DOMAIN inv.args = {"ticker", "params"}
  /\ Len(calls) = 1
  /\ calls[1].kwargs["raw"] = "True"

\* C21: for every optional parameter p the caller left absent, the body
\* holds None for p, every keyword of the upstream call that is fed from p
\* carries None, and the call is the one the invocation issues when p is
\* given as None.
C21_AbsentIsNone ==
  pc = "calling"
    => \A p \in Optional(CurrentTool) \ DOMAIN inv.args :
         /\ frame[p] = "None"
         /\ \A i \in 1..Len(CurrentTool.kwargs) :
              CurrentTool.kwargs[i][2] = p
                => calls[1].kwargs[CurrentTool.kwargs[i][1]] = "None"
         /\ calls = CallsAlone(CurrentTool,
                               Bind(CurrentTool, (p :> "None") @@ inv.args))

C21_Witness ==
  /\ pc = "calling"
  /\ inv = [tool |-> "list_tickers", args |-> NoArgs]
  /\ Len(calls) = 1
  /\ calls[1].kwargs["limit"] = "None"
  /\ calls[1].kwargs["ticker"] = "None"

\* an exception was raised during the upstream call or during the decode or
\* parse step of the invocation
FailureRaised ==
  resp # Nil /\ (resp.kind = "raise" \/ DecodeFails(resp.obj))

\* C22: an adapter returns a mapping {"error": <string>} exactly when an
\* exception was raised during its upstream call or its decode or parse
\* step.
C22_ErrorShapeIffFailure ==
  pc = "returned" => (IsErrorShape(out.v) <=> FailureRaised)

\* C23: while an invocation is inside its upstream call, a step either ends
\* that invocation (it returns or raises) or leaves it as it is: no other
\* invocation is started and the one in flight is not abandoned.
C23_RunsToReturn ==
  [][pc = "calling"
       => /\ pc' \in {"calling", "returned", "raised"}
          /\ inv' = inv
          /\ frame' = frame
          /\ calls' = calls
          /\ nInvoked' = nInvoked
          /\ Len(pending') >= Len(pending)
          /\ pc' = "calling" => (resp' = resp /\ out' = out)]_vars

C23_Witness ==
  /\ pc = "calling"
  /\ inv.tool = "get_daily_open_close_agg"
  /\ Len(pending) = 1
  /\ pending[1].tool = "list_quotes"
  /\ nInvoked = 1

\* C24: an invocation that is inside its upstream call ends; when the call
\* returned or raised an instance of Exception it ends by returning, after
\* one call, one payload: the parsed body or a mapping {"error": <string>}.
C24_Terminates ==
  /\ (pc = "calling") ~> (pc \in {"returned", "raised"})
  /\ []((Done /\ resp # Nil /\ (resp.kind = "raise" => IsException(resp.exc)))
          => /\ pc = "returned"
             /\ out.kind = "return"
             /\ Len(calls) = 1
             /\ FailureRaised => IsErrorShape(out.v))

C24_Witness ==
  /\ pc = "returned"
  /\ inv.tool = "get_snapshot_direction"
  /\ resp = Raise(Exc("TimeoutError", <<>>))
  /\ IsErrorShape(out.v)
  /\ nInvoked = 2

\* C25: an exception of the upstream call is turned into an error payload
\* exactly when it is an instance of Exception; a KeyboardInterrupt or a
\* SystemExit leaves the adapter as the exception it is.
C25_ExceptionBoundary ==
  CallRaised
    => /\ (pc = "returned") <=> (resp.exc.cls \notin BaseOnlyClasses)
       /\ (pc = "raised") <=> (resp.exc.cls \in BaseOnlyClasses)
       /\ pc = "raised" => out = Raise(resp.exc)
       /\ pc = "returned" => IsErrorShape(out.v)

C25_Witness ==
  /\ pc = "raised"
  /\ inv.tool = "get_aggs"
  /\ resp = Raise(Exc("KeyboardInterrupt", <<>>))
  /\ out = Raise(Exc("KeyboardInterrupt", <<>>))

\* C28: once start_server() has called server.run, the call was made with
\* "stdio" in an environment without MCP_TRANSPORT and in one where it is
\* the empty string, and with the very value of MCP_TRANSPORT in one where
\* it is any other string.
C28_EmptyLikeUnset ==
  runs # <<>>
    => IF EnvGet(env, "MCP_TRANSPORT", "") = "" THEN runs = <<"stdio">>
       ELSE runs = <<env["MCP_TRANSPORT"]>>

C28_Witness ==
  /\ "MCP_TRANSPORT" \in DOMAIN env
  /\ env["MCP_TRANSPORT"] = ""
  /\ runs = <<"stdio">>
  /\ phase = "serving"

\* the poly_mcp instance of server.py as create_app found it
PolyMcp == NewFastMCP(ServerFastMCP(app.lib), app.lib, registry)

AppReturned == app # Nil /\ app.result.kind = "return"

AppRaised == app # Nil /\ app.result.kind = "raise"

C27_NeverSwallows ==
  app # Nil
    => /\ AppReturned
            => /\ "server" \in DOMAIN app.result.v
               /\ app.lib.http_app = Nil
               /\ HasAttr(PolyMcp, "http_app") \/ HasAttr(PolyMcp, "_app")
       /\ (~HasAttr(PolyMcp, "http_app")
             /\ app.lib.module # "mcp.server.fastmcp")
            => /\ AppRaised
               /\ app.result.exc = Exc("RuntimeError", <<T_InstanceNoHttpApp>>)
       /\ (~HasAttr(PolyMcp, "http_app")
             /\ app.lib.module = "mcp.server.fastmcp"
             /\ ImportStandalone(app.lib).ok
             /\ ~HasAttr(ImportStandalone(app.lib).v, "http_app"))
            => /\ AppRaised
               /\ app.result.exc
                    = Exc("RuntimeError", <<T_StandaloneNoHttpApp>>)
       /\ (~HasAttr(PolyMcp, "http_app")
             /\ app.lib.module = "mcp.server.fastmcp"
             /\ ~ImportStandalone(app.lib).ok)
            => /\ AppRaised
               /\ app.result.exc.cls = "RuntimeError"
       /\ (HasAttr(PolyMcp, "http_app") /\ app.lib.http_app # Nil)
            => app.result = Raise(app.lib.http_app)
       /\ (AppRaised /\ IsException(app.result.exc))
            => /\ stdout # <<>>
               /\ stdout[Len(stdout)]
                    = <<<<10060>>, " Error creating HTTP app: ",
                        Str(app.result.exc)>>
               /\ phase = "registered"
               /\ pc = "idle"

C27_Witness ==
  /\ AppRaised
  /\ app.lib.module = "fastmcp.server.server"
  /\ app.lib.attrs = {}
  /\ app.result.exc = Exc("RuntimeError", <<T_InstanceNoHttpApp>>)
  /\ Len(stdout) = 1
  /\ stdout[1] = <<<<10060>>, " Error creating HTTP app: ",
                   T_InstanceNoHttpApp>>
  /\ phase = "registered"
=============================================================================
